---------------------------- MODULE Spec2Model ----------------------------
(***************************************************************************)
(* State-machine model of the memory engine of claude-persistent-memory   *)
(* (lib/memory-db.js, services/memory-mcp-server.js).                      *)
(*                                                                         *)
(* Conventions                                                             *)
(*   - confidence, similarity and score values are fixed-point integers in *)
(*     hundredths (0.65 is 65); avg_confidence is an exact rational        *)
(*     [n |-> numerator, d |-> denominator] in hundredths, reduced.        *)
(*   - a text is a sequence of words; a word is <<base, case>> so that     *)
(*     toLowerCase() is a real conversion.                                  *)
(*   - an embedding is a 2-dimensional integer vector of norm 5; cosine    *)
(*     similarity is compared exactly with integer arithmetic.             *)
(*   - created_at order is insertion order (ids are AUTOINCREMENT).        *)
(*   - an async function runs atomically between two awaits; each await on *)
(*     the LLM service or the embedder is a suspension point at which      *)
(*     other calls may run.                                                *)
(***************************************************************************)
EXTENDS Integers, Sequences, FiniteSets, TLC

\* ------------------------------------------------------------------ bounds

\* records that may ever be inserted (ids 1..MaxRecords)
MaxRecords == 2
\* calls of validate, boost, mark used, delete, dedup update and search in one run
MaxOps == 2
\* largest search limit k
MaxK == 2

\* data events of one request
MaxChunks == 2
\* largest age of a Record in days, and in half-lives of its type
MaxAgeDays == 180
MaxHalfLives == 5

\* --------------------------------------------------------- program constants

CLUSTER_SIMILARITY_THRESHOLD == 70
CLUSTER_MATURITY_COUNT == 5
CLUSTER_MATURITY_CONFIDENCE == 65
\* save(): "if (similarity >= 0.95)"
DEDUP_THRESHOLD == 95
\* save(): "LIMIT 10"
DEDUP_RECENT == 10
\* confidence floor and ceiling used by validateMemory
CONF_MIN == 30
CONF_MAX == 90

\* ------------------------------------------------------------------ helpers

Min(a, b) == IF a <= b THEN a ELSE b
Max(a, b) == IF a >= b THEN a ELSE b

RECURSIVE GCD(_, _)
GCD(a, b) == IF b = 0 THEN a ELSE GCD(b, a % b)

\* a non-negative rational, reduced
Rat(n, d) == LET g == GCD(n, d) IN IF g = 0 THEN [n |-> 0, d |-> 1] ELSE [n |-> n \div g, d |-> d \div g]
\* r >= p/q
RatGE(r, p, q) == r.n * q >= p * r.d
RatEq(r, s) == r.n * s.d = s.n * r.d

RECURSIVE SumOver(_, _)
SumOver(S, f) == IF S = {} THEN 0 ELSE LET x == CHOOSE y \in S : TRUE IN f[x] + SumOver(S \ {x}, f)

\* the ids of s in increasing order
RECURSIVE SortAsc(_)
SortAsc(S) == IF S = {} THEN <<>> ELSE LET m == CHOOSE x \in S : \A y \in S : x <= y IN <<m>> \o SortAsc(S \ {m})

SeqRange(s) == {s[i] : i \in 1..Len(s)}

\* Array.prototype.sort((a, b) => key(b) - key(a)): stable, descending by key
stableSortDesc(seq, key) ==
  LET rank(i) == 1 + Cardinality({j \in 1..Len(seq) : key[j] > key[i] \/ (key[j] = key[i] /\ j < i)})
  IN [p \in 1..Len(seq) |-> seq[CHOOSE i \in 1..Len(seq) : rank(i) = p]]

\* -------------------------------------------------------------------- texts

\* a.toLowerCase().split(/\s+/) as a set
lowerWords(t) == {<<t[i][1], "l">> : i \in 1..Len(t)}

\* word-level Jaccard similarity
textSimilarity(a, b) ==
  LET wordsA == lowerWords(a)
      wordsB == lowerWords(b)
  IN Rat(Cardinality(wordsA \cap wordsB), Cardinality(wordsA \cup wordsB))

TextA == << <<"async", "l">>, <<"db", "l">> >>
\* same words as TextA in another order and case: another text, similarity 1
TextA2 == << <<"db", "l">>, <<"async", "u">> >>
\* shares one word of three with TextA
TextB == << <<"pool", "l">>, <<"db", "l">> >>
\* shares no word with the others
TextC == << <<"cache", "l">>, <<"ttl", "l">> >>
Texts == {TextA, TextA2, TextB}

\* ------------------------------------------------------------------ vectors

Vecs == {<<5, 0>>, <<4, 3>>, <<3, 4>>}
NoVec == <<>>

Dot(a, b) == a[1] * b[1] + a[2] * b[2]
VecAdd(a, b) == <<a[1] + b[1], a[2] + b[2]>>

\* cosineSimilarity(a, b) >= pct / 100
cosineAtLeast(a, b, pct) ==
  LET dot == Dot(a, b)
      nn == Dot(a, a) * Dot(b, b)
  IN IF a = NoVec \/ b = NoVec \/ nn = 0 THEN pct <= 0
     ELSE IF pct <= 0 THEN dot >= 0 \/ 10000 * dot * dot <= pct * pct * nn
     ELSE dot >= 0 /\ 10000 * dot * dot >= pct * pct * nn

\* cosineSimilarity(e, c1) > cosineSimilarity(e, c2), both known to be positive
cosineGreater(e, c1, c2) ==
  LET d1 == Dot(e, c1)
      d2 == Dot(e, c2)
  IN d1 * d1 * Dot(c2, c2) > d2 * d2 * Dot(c1, c1)

\* cosineSimilarity of two embeddings (norm 5) in hundredths
cosineSimilarity(a, b) == IF a = NoVec \/ b = NoVec THEN 0 ELSE (100 * Dot(a, b)) \div 25


\* -------------------------------------------------------------------- state

Types == {"pattern", "bug"}
Domains == {"backend", "testing"}
Slots == {1, 2}

VARIABLES
  memories,      \* table memories: id -> row
  nextId,        \* AUTOINCREMENT sequence of memories
  memories_vec,  \* table memories_vec: rowid -> embedding
  clusters,      \* table clusters: sequence of rows, id = index
  calls,         \* the async calls in flight, one per slot
  ops,           \* history: the number of bookkeeping calls made so far
  lastOp         \* history: the call that returned, or the step taken, last

vars == <<memories, nextId, memories_vec, clusters, calls, ops, lastOp>>

\* search options: minConfidence = 0, type = null, domain = null ("" is null)
NoOptions == [minConfidence |-> 0, type |-> "", domain |-> ""]

\* the arguments and the BM25 rows a suspended search holds
NoReq == [query |-> <<>>, limit |-> 0, options |-> NoOptions, asked |-> NoOptions,
          tool |-> FALSE, fts |-> <<>>]

Idle == [pc |-> "idle", content |-> <<>>, type |-> "", domain |-> "", confidence |-> 0,
         source |-> "", memoryId |-> 0, clusterId |-> 0, members |-> {}, mainType |-> "",
         req |-> NoReq, rows |-> <<>>, success |-> 0, failed |-> 0,
         stdin |-> <<>>, resolved |-> FALSE, timer |-> "none", stdout |-> <<>>, status |-> 0,
         client |-> "", socket |-> "none", buffer |-> <<>>, outcomes |-> <<>>, events |-> <<>>,
         lastLine |-> 0, total |-> 0, exists |-> FALSE, sent |-> <<>>, runs |-> 0]

NoOp == [op |-> "none", id |-> 0, cluster |-> 0, members |-> {}, similarity |-> Rat(0, 1),
         valid |-> FALSE, in_a_row |-> FALSE, results |-> <<>>, limit |-> 0,
         asked |-> NoOptions, candidates |-> 0, tool |-> FALSE, vec_failed |-> FALSE,
         rebuilt |-> 0, failed |-> 0, decay |-> 0, age |-> 0, type |-> "", created |-> 0]

Op(name, id) == [NoOp EXCEPT !.op = name, !.id = id]

Init ==
  /\ memories = <<>>
  /\ nextId = 1
  /\ memories_vec = <<>>
  /\ clusters = <<>>
  /\ calls = [s \in Slots |-> Idle]
  /\ ops = 0
  /\ lastOp = NoOp

\* --------------------------------------------------------------------- save

\* a faulty variant: ORDER BY created_at ASC
recentByTypeDomainAscending(mems, type, domain) ==
  LET bucket == {i \in DOMAIN mems : mems[i].type = type /\ mems[i].domain = domain}
      asc == SortAsc(bucket)
      n == Len(asc)
  IN [k \in 1..Min(n, DEDUP_RECENT) |-> asc[k]]

\* SELECT id ... WHERE type = ? AND domain = ? ORDER BY created_at DESC LIMIT 10
recentByTypeDomain(mems, type, domain) ==
  LET bucket == {i \in DOMAIN mems : mems[i].type = type /\ mems[i].domain = domain}
      asc == SortAsc(bucket)
      n == Len(asc)
  IN [k \in 1..Min(n, DEDUP_RECENT) |-> asc[n + 1 - k]]

isDuplicate(content, other) == RatGE(textSimilarity(content, other), DEDUP_THRESHOLD, 100)

\* the first row of the dedup loop whose similarity reaches the threshold, or 0
firstDuplicate(mems, content, type, domain) ==
  LET existing == recentByTypeDomain(mems, type, domain)
      hits == {k \in 1..Len(existing) : isDuplicate(content, mems[existing[k]].content)}
  IN IF hits = {} THEN 0 ELSE existing[CHOOSE k \in hits : \A j \in hits : k <= j]

\* UPDATE memories SET access_count = access_count + 1, confidence = MIN(0.9, confidence + 0.05)
\* a faulty variant: the UPDATE without the access_count column
dedupUpdateConfidenceOnly(row) ==
  [row EXCEPT !.confidence = Min(CONF_MAX, @ + 5)]

dedupUpdate(row) ==
  [row EXCEPT !.access_count = @ + 1, !.confidence = Min(CONF_MAX, @ + 5)]

\* the value save() stores in the confidence column
storedConfidence(confidence) == confidence

\* INSERT INTO memories (...)
insertRow(mems, id, content, type, domain, confidence, source) ==
  [i \in DOMAIN mems \cup {id} |->
     IF i = id
     THEN [content |-> content, type |-> type, domain |-> domain,
           confidence |-> storedConfidence(confidence), evidence_count |-> 0, access_count |-> 0,
           cluster_id |-> 0, source |-> source,
           dup_at_insert |-> firstDuplicate(mems, content, type, domain) # 0]
     ELSE mems[i]]

\* a new call takes the lowest free slot
freeSlot(s) == calls[s].pc = "idle" /\ \A r \in Slots : r < s => calls[r].pc # "idle"

\* rows that calls suspended before their INSERT will still insert
pendingInserts == Cardinality({s \in Slots : calls[s].pc \in {"structurize", "merge_llm"}})

roomFor(cap) == nextId + pendingInserts <= cap

\* a faulty variant: the SELECT without "status IN ('growing', 'mature')"
clusterScanAnyStatus(cls) == [k \in 1..Len(cls) |-> k]

\* SELECT ... FROM clusters WHERE domain = ? AND status IN ('growing', 'mature'),
\* without ORDER BY: the rows come in the order of idx_clusters_status, which
\* SQLite searches for the two values of status in turn (growing, then mature),
\* each in id order
clusterScan(cls) ==
  SortAsc({c \in 1..Len(cls) : cls[c].status = "growing"})
    \o SortAsc({c \in 1..Len(cls) : cls[c].status = "mature"})

\* a faulty variant: the SELECT without "domain = ?"
RECURSIVE bestClusterAnyDomain(_, _, _, _, _)
bestClusterAnyDomain(cls, embedding, domain, i, best) ==
  LET scan == SortAsc({c \in 1..Len(cls) : cls[c].status = "growing"})
                \o SortAsc({c \in 1..Len(cls) : cls[c].status = "mature"})
  IN IF i > Len(scan) THEN best
     ELSE LET c == cls[scan[i]]
              better == /\ cosineAtLeast(embedding, c.centroid, CLUSTER_SIMILARITY_THRESHOLD)
                        /\ (best = 0 \/ cosineGreater(embedding, c.centroid, cls[best].centroid))
          IN bestClusterAnyDomain(cls, embedding, domain, i + 1, IF better THEN scan[i] ELSE best)

\* tryJoinCluster: the best cluster of the domain, scanning the rows of the SELECT;
\* a later row replaces the best one only if it is strictly more similar
RECURSIVE bestCluster(_, _, _, _, _)
bestCluster(cls, embedding, domain, i, best) ==
  LET scan == clusterScan(cls)
  IN IF i > Len(scan) THEN best
     ELSE LET c == cls[scan[i]]
              better == /\ c.domain = domain
                        /\ cosineAtLeast(embedding, c.centroid, CLUSTER_SIMILARITY_THRESHOLD)
                        /\ (best = 0 \/ cosineGreater(embedding, c.centroid, cls[best].centroid))
          IN bestCluster(cls, embedding, domain, i + 1, IF better THEN scan[i] ELSE best)

\* a faulty variant: the maturity check on the member count alone
joinedClusterCountOnly(c, confidence) ==
  LET newCount == c.member_count + 1
      newAvgConf == Rat(c.avg_confidence.n * c.member_count + confidence * c.avg_confidence.d,
                        c.avg_confidence.d * newCount)
      mature == newCount >= CLUSTER_MATURITY_COUNT
  IN [c EXCEPT !.member_count = newCount,
               !.avg_confidence = newAvgConf,
               !.status = IF mature /\ @ = "growing" THEN "mature" ELSE @]

\* the cluster row after one more member of the given confidence joined
joinedCluster(c, confidence) ==
  LET newCount == c.member_count + 1
      newAvgConf == Rat(c.avg_confidence.n * c.member_count + confidence * c.avg_confidence.d,
                        c.avg_confidence.d * newCount)
      mature == newCount >= CLUSTER_MATURITY_COUNT /\ RatGE(newAvgConf, CLUSTER_MATURITY_CONFIDENCE, 1)
  IN [c EXCEPT !.member_count = newCount,
               !.avg_confidence = newAvgConf,
               !.status = IF mature /\ @ = "growing" THEN "mature" ELSE @]

\* tryJoinCluster(memoryId, embedding, domain, confidence): the tables after it
tryJoinCluster(mems, cls, memoryId, embedding, domain, confidence) ==
  LET best == bestCluster(cls, embedding, domain, 1, 0)
  IN IF best = 0 THEN [memories |-> mems, clusters |-> cls, joined |-> 0]
     ELSE [memories |-> [i \in DOMAIN mems |->
                           IF i = memoryId THEN [mems[i] EXCEPT !.cluster_id = best] ELSE mems[i]],
           clusters |-> [cls EXCEPT ![best] = joinedCluster(@, confidence)],
           joined |-> best]

\* save(): the dedup loop found a near-identical recent row
SaveDuplicate(s, content, type, domain) ==
  LET hit == firstDuplicate(memories, content, type, domain)
  IN /\ freeSlot(s)
     /\ hit # 0
     /\ ops < MaxOps
     /\ ops' = ops + 1
     /\ memories' = [memories EXCEPT ![hit] = dedupUpdate(@)]
     /\ lastOp' = [Op("updated", hit) EXCEPT
                     !.similarity = textSimilarity(content, memories[hit].content),
                     !.in_a_row = lastOp.op = "created" /\ lastOp.id = hit
                                  /\ content = memories[hit].content]
     /\ UNCHANGED <<nextId, memories_vec, clusters, calls>>

\* save() without pre-structured content: suspends on the structurer
SaveBegin(s, content, type, domain, confidence, source) ==
  /\ freeSlot(s)
  /\ firstDuplicate(memories, content, type, domain) = 0
  /\ calls' = [calls EXCEPT ![s] = [Idle EXCEPT !.pc = "structurize", !.content = content,
                                                !.type = type, !.domain = domain,
                                                !.confidence = confidence, !.source = source]]
  /\ lastOp' = NoOp
  /\ UNCHANGED <<memories, nextId, memories_vec, clusters, ops>>

\* save() with structuredContent given (skipStructurize): inserts without suspending
SavePreStructured(s, content, type, domain, confidence, source) ==
  /\ freeSlot(s)
  /\ firstDuplicate(memories, content, type, domain) = 0
  /\ memories' = insertRow(memories, nextId, content, type, domain, confidence, source)
  /\ nextId' = nextId + 1
  /\ calls' = [calls EXCEPT ![s] = [Idle EXCEPT !.pc = "embed", !.content = content,
                                                !.type = type, !.domain = domain,
                                                !.confidence = confidence, !.source = source,
                                                !.memoryId = nextId]]
  /\ lastOp' = NoOp
  /\ UNCHANGED <<memories_vec, clusters, ops>>

\* the structurer answered: reject, or anything else (XML, an object, nothing)
\* a faulty variant: the answer is not tested for __rejected
SaveStructurizedIgnoringReject(s, rejected) ==
  LET c == calls[s]
  IN /\ c.pc = "structurize"
     /\ memories' = insertRow(memories, nextId, c.content, c.type, c.domain, c.confidence, c.source)
     /\ nextId' = nextId + 1
     /\ calls' = [calls EXCEPT ![s] = [c EXCEPT !.pc = "embed", !.memoryId = nextId]]
     /\ lastOp' = NoOp
     /\ UNCHANGED <<memories_vec, clusters, ops>>

SaveStructurized(s, rejected) ==
  LET c == calls[s]
  IN /\ c.pc = "structurize"
     /\ UNCHANGED ops
     /\ IF rejected
        THEN /\ calls' = [calls EXCEPT ![s] = Idle]
             /\ lastOp' = Op("rejected", 0)
             /\ UNCHANGED <<memories, nextId, memories_vec, clusters>>
        ELSE /\ memories' = insertRow(memories, nextId, c.content, c.type, c.domain, c.confidence, c.source)
             /\ nextId' = nextId + 1
             /\ calls' = [calls EXCEPT ![s] = [c EXCEPT !.pc = "embed", !.memoryId = nextId]]
             /\ lastOp' = NoOp
             /\ UNCHANGED <<memories_vec, clusters>>

\* a faulty variant: a failed embedder is replaced by a default vector
SaveEmbeddedDefaultVector(s, embedding, vecInsertOk) ==
  LET c == calls[s]
      used == IF embedding = NoVec THEN <<5, 0>> ELSE embedding
      joined == tryJoinCluster(memories, clusters, c.memoryId, used, c.domain, c.confidence)
  IN /\ c.pc = "embed"
     /\ memories_vec' = IF vecInsertOk
                        THEN [i \in DOMAIN memories_vec \cup {c.memoryId} |->
                                IF i = c.memoryId THEN used ELSE memories_vec[i]]
                        ELSE memories_vec
     /\ memories' = joined.memories
     /\ clusters' = joined.clusters
     /\ calls' = [calls EXCEPT ![s] = Idle]
     /\ lastOp' = [Op("created", c.memoryId) EXCEPT !.cluster = joined.joined,
                                                     !.vec_failed = ~vecInsertOk]
     /\ UNCHANGED <<nextId, ops>>

\* the embedder answered (NoVec: no embedding); the vector insert may throw and is caught
SaveEmbedded(s, embedding, vecInsertOk) ==
  LET c == calls[s]
      joined == IF embedding # NoVec
                THEN tryJoinCluster(memories, clusters, c.memoryId, embedding, c.domain, c.confidence)
                ELSE [memories |-> memories, clusters |-> clusters, joined |-> 0]
  IN /\ c.pc = "embed"
     /\ memories_vec' = IF embedding # NoVec /\ vecInsertOk
                        THEN [i \in DOMAIN memories_vec \cup {c.memoryId} |->
                                IF i = c.memoryId THEN embedding ELSE memories_vec[i]]
                        ELSE memories_vec
     /\ memories' = joined.memories
     /\ clusters' = joined.clusters
     /\ calls' = [calls EXCEPT ![s] = Idle]
     /\ lastOp' = [Op("created", c.memoryId) EXCEPT !.cluster = joined.joined,
                                                     !.vec_failed = embedding # NoVec /\ ~vecInsertOk]
     /\ UNCHANGED <<nextId, ops>>


\* --------------------------------------------------- confidence bookkeeping

clamp(x, lo, hi) == Max(lo, Min(hi, x))

\* a faulty variant: the penalty as large as the reward
validatedConfidenceSymmetric(confidence, isValid) ==
  clamp(confidence + (IF isValid THEN 10 ELSE -10), CONF_MIN, CONF_MAX)

\* validateMemory: confidence = MAX(0.3, MIN(0.9, confidence + delta))
validatedConfidence(confidence, isValid) ==
  clamp(confidence + (IF isValid THEN 10 ELSE -5), CONF_MIN, CONF_MAX)

\* validateMemory(memoryId, isValid)
Validate(id, isValid) ==
  /\ id \in DOMAIN memories
  /\ ops < MaxOps
  /\ ops' = ops + 1
  /\ memories' = [memories EXCEPT ![id].confidence = validatedConfidence(@, isValid),
                                  ![id].evidence_count = @ + 1]
  /\ lastOp' = [Op("validate", id) EXCEPT !.valid = isValid]
  /\ UNCHANGED <<nextId, memories_vec, clusters, calls>>

\* autoBoostConfidence: confidence = MIN(0.9, confidence + boost)
boostedConfidence(confidence, boost) == Min(CONF_MAX, confidence + boost)

\* autoBoostConfidence(memoryId, boost)
AutoBoost(id, boost) ==
  /\ id \in DOMAIN memories
  /\ ops < MaxOps
  /\ ops' = ops + 1
  /\ memories' = [memories EXCEPT ![id].confidence = boostedConfidence(@, boost),
                                  ![id].access_count = @ + 1]
  /\ lastOp' = NoOp
  /\ UNCHANGED <<nextId, memories_vec, clusters, calls>>

\* markMemoriesUsed(memoryIds)
markedUsed(mems, ids) ==
  [i \in DOMAIN mems |-> IF i \in ids THEN [mems[i] EXCEPT !.access_count = @ + 1] ELSE mems[i]]

MarkUsed(ids) ==
  /\ ids # {}
  /\ ids \subseteq DOMAIN memories
  /\ ops < MaxOps
  /\ ops' = ops + 1
  /\ memories' = markedUsed(memories, ids)
  /\ lastOp' = NoOp
  /\ UNCHANGED <<nextId, memories_vec, clusters, calls>>

\* deleteMemory(memoryId): DELETE FROM memories WHERE id = ?
deletedRows(mems, ids) == [i \in DOMAIN mems \ ids |-> mems[i]]

Delete(id) ==
  /\ id \in DOMAIN memories
  /\ ops < MaxOps
  /\ ops' = ops + 1
  /\ memories' = deletedRows(memories, {id})
  /\ lastOp' = NoOp
  /\ UNCHANGED <<nextId, memories_vec, clusters, calls>>

\* ------------------------------------------------------------ autoCluster

\* autoCluster: "LIMIT 100"
AUTO_CLUSTER_LIMIT == 100
\* autoCluster: minClusterSize = 2
MIN_CLUSTER_SIZE == 2

\* a faulty variant: the SELECT without "confidence >= ?"
unclusteredIdsAnyConfidence(mems, minConfidence, domain) ==
  {i \in DOMAIN mems : /\ mems[i].cluster_id = 0
                       /\ (domain = "" \/ mems[i].domain = domain)}

\* the rows autoCluster selects: cluster_id IS NULL AND confidence >= ? [AND domain = ?]
unclusteredIds(mems, minConfidence, domain) ==
  {i \in DOMAIN mems : /\ mems[i].cluster_id = 0
                       /\ mems[i].confidence >= minConfidence
                       /\ (domain = "" \/ mems[i].domain = domain)}

\* an order is a sequence without repetition over S
isOrderOf(order, S) == Len(order) = Cardinality(S) /\ SeqRange(order) = S

\* ORDER BY confidence DESC (rows of equal confidence come in any order)
byConfidenceDesc(order, mems) ==
  \A i, j \in 1..Len(order) : i < j => mems[order[i]].confidence >= mems[order[j]].confidence

RECURSIVE Orders(_)
Orders(S) == IF S = {} THEN {<<>>} ELSE UNION {{<<x>> \o o : o \in Orders(S \ {x})} : x \in S}

\* the orders ORDER BY confidence DESC can give, built from the highest confidence down
RECURSIVE confidenceOrders(_, _)
confidenceOrders(S, mems) ==
  IF S = {} THEN {<<>>}
  ELSE UNION {{<<x>> \o o : o \in confidenceOrders(S \ {x}, mems)} :
                x \in {y \in S : \A z \in S : mems[y].confidence >= mems[z].confidence}}

Take(seq, n) == SubSeq(seq, 1, Min(n, Len(seq)))

\* the subsequence of the elements satisfying a membership test
RECURSIVE Filter(_, _)
Filter(seq, S) ==
  IF seq = <<>> THEN <<>>
  ELSE (IF Head(seq) \in S THEN <<Head(seq)>> ELSE <<>>) \o Filter(Tail(seq), S)

\* Object.entries(byDomain): the domains in order of first appearance
RECURSIVE domainOrder(_, _, _)
domainOrder(order, mems, seen) ==
  IF order = <<>> THEN <<>>
  ELSE LET d == mems[Head(order)].domain
       IN IF d \in seen THEN domainOrder(Tail(order), mems, seen)
          ELSE <<d>> \o domainOrder(Tail(order), mems, seen \cup {d})

\* the rows the seed at position i absorbs: later, unused, similar enough to the seed
absorbed(dv, vecs, used, i, threshold) ==
  {j \in (i + 1)..Len(dv) : /\ j \notin used
                            /\ cosineSimilarity(vecs[dv[i]], vecs[dv[j]]) >= threshold}

\* single-pass greedy clustering of one domain: the kept candidates, in order
RECURSIVE greedyClusters(_, _, _, _, _)
greedyClusters(dv, vecs, used, i, threshold) ==
  IF i > Len(dv) THEN <<>>
  ELSE IF i \in used THEN greedyClusters(dv, vecs, used, i + 1, threshold)
  ELSE LET abs == absorbed(dv, vecs, used, i, threshold)
           cluster == <<dv[i]>> \o [k \in 1..Cardinality(abs) |-> dv[SortAsc(abs)[k]]]
       IN (IF Len(cluster) >= MIN_CLUSTER_SIZE THEN <<cluster>> ELSE <<>>)
            \o greedyClusters(dv, vecs, used \cup {i} \cup abs, i + 1, threshold)

RECURSIVE SumVec(_, _)
SumVec(S, vecs) ==
  IF S = {} THEN <<0, 0>>
  ELSE LET x == CHOOSE y \in S : TRUE IN VecAdd(vecs[x], SumVec(S \ {x}, vecs))

\* the cluster row autoCluster inserts for a candidate.  centroid holds the sum
\* of the member vectors: the code stores sum / length, and every use of the
\* centroid is a cosine similarity, which the positive factor 1 / length cancels.
newClusterRow(cluster, mems, vecs, domain) ==
  LET ids == SeqRange(cluster)
      avgConfidence == Rat(SumOver(ids, [i \in ids |-> mems[i].confidence]), Len(cluster))
      mature == Len(cluster) >= CLUSTER_MATURITY_COUNT
                /\ RatGE(avgConfidence, CLUSTER_MATURITY_CONFIDENCE, 1)
  IN [centroid |-> SumVec(ids, vecs), member_count |-> Len(cluster),
      avg_confidence |-> avgConfidence, domain |-> domain,
      status |-> IF mature THEN "mature" ELSE "growing"]

\* all candidates of all domains, domain by domain
RECURSIVE allCandidates(_, _, _, _, _)
allCandidates(doms, withVec, mems, vecs, threshold) ==
  IF doms = <<>> THEN <<>>
  ELSE LET d == Head(doms)
           dv == Filter(withVec, {i \in DOMAIN mems : mems[i].domain = d})
           here == IF Len(dv) < MIN_CLUSTER_SIZE THEN <<>>
                   ELSE greedyClusters(dv, vecs, {}, 1, threshold)
       IN here \o allCandidates(Tail(doms), withVec, mems, vecs, threshold)

\* the candidates autoCluster creates from the rows in the given order
autoClusterCandidates(order, mems, vecs, threshold) ==
  LET unclustered == Take(order, AUTO_CLUSTER_LIMIT)
      withVec == Filter(unclustered, DOMAIN vecs)
  IN IF Len(unclustered) < MIN_CLUSTER_SIZE \/ Len(withVec) < MIN_CLUSTER_SIZE THEN <<>>
     ELSE allCandidates(domainOrder(withVec, mems, {}), withVec, mems, vecs, threshold)

\* a faulty variant: the clusters are inserted, "UPDATE memories SET cluster_id" is left out
autoClusteredNoUpdate(order, mems, cls, vecs) ==
  LET cands == autoClusterCandidates(order, mems, vecs, CLUSTER_SIMILARITY_THRESHOLD)
  IN [clusters |-> cls \o [k \in 1..Len(cands) |->
                             newClusterRow(cands[k], mems, vecs, mems[cands[k][1]].domain)],
      memories |-> mems]

\* the tables after autoCluster created its clusters from the rows in the given order
autoClustered(order, mems, cls, vecs) ==
  LET cands == autoClusterCandidates(order, mems, vecs, CLUSTER_SIMILARITY_THRESHOLD)
      base == Len(cls)
      newOf == [i \in DOMAIN mems |->
                  LET ks == {k \in 1..Len(cands) : i \in SeqRange(cands[k])}
                  IN IF ks = {} THEN 0 ELSE base + (CHOOSE k \in ks : TRUE)]
  IN [clusters |-> cls \o [k \in 1..Len(cands) |->
                             newClusterRow(cands[k], mems, vecs, mems[cands[k][1]].domain)],
      memories |-> [i \in DOMAIN mems |->
                      IF newOf[i] # 0 THEN [mems[i] EXCEPT !.cluster_id = newOf[i]] ELSE mems[i]]]

\* autoCluster({domain, minConfidence}): hoursBack is not modelled (every row is recent)
AutoCluster(minConfidence, domain) ==
  \E order \in Orders(unclusteredIds(memories, minConfidence, domain)) :
    LET out == autoClustered(order, memories, clusters, memories_vec)
    IN /\ byConfidenceDesc(order, memories)
       /\ clusters' = out.clusters
       /\ memories' = out.memories
       /\ lastOp' = NoOp
       /\ UNCHANGED <<nextId, memories_vec, calls, ops>>


\* ------------------------------------------------------ mergeClusterMemories

\* content of the aggregate when the LLM merged: cluster.theme
ThemeText == << <<"theme", "l">> >>
\* the separator of the fallback concatenation
Separator == << <<"---", "l">> >>

clusterMembers(mems, clusterId) == {i \in DOMAIN mems : mems[i].cluster_id = clusterId}

\* ORDER BY confidence DESC, rows of equal confidence by id
RECURSIVE membersInOrder(_, _)
membersInOrder(S, mems) ==
  IF S = {} THEN <<>>
  ELSE LET m == CHOOSE x \in S : \A y \in S :
                   \/ mems[x].confidence > mems[y].confidence
                   \/ (mems[x].confidence = mems[y].confidence /\ x <= y)
       IN <<m>> \o membersInOrder(S \ {m}, mems)

\* memoryTexts.join('\n---\n')
RECURSIVE joinTexts(_, _)
joinTexts(order, mems) ==
  IF order = <<>> THEN <<>>
  ELSE IF Len(order) = 1 THEN mems[order[1]].content
  ELSE mems[order[1]].content \o Separator \o joinTexts(Tail(order), mems)

\* the types that can come first in typeCounts sorted by count: the most frequent
\* ones, and among those one whose best member is not ranked after another's
mainTypes(S, mems) ==
  LET count(t) == Cardinality({i \in S : mems[i].type = t})
      best(t) == CHOOSE c \in {mems[i].confidence : i \in {j \in S : mems[j].type = t}} :
                   \A i \in S : mems[i].type = t => mems[i].confidence <= c
      modal == {t \in {mems[i].type : i \in S} : \A u \in {mems[i].type : i \in S} : count(t) >= count(u)}
  IN {t \in modal : \A u \in modal : best(t) >= best(u)}

\* mergeClusterMemories(clusterId) returns null: no such cluster, not mature, or < 2 members
MergeNull(clusterId) ==
  /\ clusterId \in 1..(Len(clusters) + 1)
  /\ IF clusterId > Len(clusters) THEN TRUE
     ELSE clusters[clusterId].status # "mature"
            \/ Cardinality(clusterMembers(memories, clusterId)) < 2
  /\ lastOp' = [Op("merge-null", 0) EXCEPT !.cluster = clusterId]
  /\ UNCHANGED <<memories, nextId, memories_vec, clusters, calls, ops>>

\* a faulty variant: the early return without "cluster.status !== 'mature'"
MergeBeginAnyStatus(s, clusterId) ==
  LET members == clusterMembers(memories, clusterId)
  IN /\ freeSlot(s)
     /\ clusterId \in 1..Len(clusters)
     /\ Cardinality(members) >= 2
     /\ \E mainType \in mainTypes(members, memories) :
          calls' = [calls EXCEPT ![s] =
                      [Idle EXCEPT !.pc = "merge_llm", !.clusterId = clusterId, !.members = members,
                                   !.mainType = mainType, !.domain = clusters[clusterId].domain,
                                   !.content = joinTexts(membersInOrder(members, memories), memories)]]
     /\ lastOp' = NoOp
     /\ UNCHANGED <<memories, nextId, memories_vec, clusters, ops>>

\* mergeClusterMemories(clusterId): reads the cluster and its members, suspends on the LLM
MergeBegin(s, clusterId) ==
  LET members == clusterMembers(memories, clusterId)
  IN /\ freeSlot(s)
     /\ clusterId \in 1..Len(clusters)
     /\ clusters[clusterId].status = "mature"
     /\ Cardinality(members) >= 2
     /\ \E mainType \in mainTypes(members, memories) :
          calls' = [calls EXCEPT ![s] =
                      [Idle EXCEPT !.pc = "merge_llm", !.clusterId = clusterId, !.members = members,
                                   !.mainType = mainType, !.domain = clusters[clusterId].domain,
                                   !.content = joinTexts(membersInOrder(members, memories), memories)]]
     /\ lastOp' = NoOp
     /\ UNCHANGED <<memories, nextId, memories_vec, clusters, ops>>

\* DELETE FROM memories_vec WHERE rowid = ? for each member (a failure is ignored)
deletedVecs(vecs, ids) == [i \in DOMAIN vecs \ ids |-> vecs[i]]

\* UPDATE clusters SET status = 'merged'
mergedCluster(cls, clusterId) == [cls EXCEPT ![clusterId].status = "merged"]

\* a faulty variant: the fallback aggregate gets the confidence of the LLM aggregate
MergeLLMSameConfidence(s, merged) ==
  LET c == calls[s]
  IN /\ c.pc = "merge_llm"
     /\ nextId' = nextId + 1
     /\ UNCHANGED ops
     /\ IF merged
        THEN /\ memories' = insertRow(memories, nextId, ThemeText, c.mainType, c.domain, 90, "cluster-merge")
             /\ calls' = [calls EXCEPT ![s] = [c EXCEPT !.pc = "merge_embed", !.memoryId = nextId]]
             /\ lastOp' = NoOp
             /\ UNCHANGED <<memories_vec, clusters>>
        ELSE /\ memories' = deletedRows(insertRow(memories, nextId, c.content, c.mainType, c.domain, 90,
                                                  "cluster-merge"), c.members)
             /\ memories_vec' = deletedVecs(memories_vec, c.members)
             /\ clusters' = mergedCluster(clusters, c.clusterId)
             /\ calls' = [calls EXCEPT ![s] = Idle]
             /\ lastOp' = [Op("merged", nextId) EXCEPT !.cluster = c.clusterId, !.members = c.members]

\* the LLM answered.  merged: the aggregate is inserted and the call suspends on the
\* embedder.  Otherwise the fallback inserts the concatenation, deletes the members
\* and marks the cluster, without suspending.
MergeLLM(s, merged) ==
  LET c == calls[s]
  IN /\ c.pc = "merge_llm"
     /\ nextId' = nextId + 1
     /\ UNCHANGED ops
     /\ IF merged
        THEN /\ memories' = insertRow(memories, nextId, ThemeText, c.mainType, c.domain, 90, "cluster-merge")
             /\ calls' = [calls EXCEPT ![s] = [c EXCEPT !.pc = "merge_embed", !.memoryId = nextId]]
             /\ lastOp' = NoOp
             /\ UNCHANGED <<memories_vec, clusters>>
        ELSE /\ memories' = deletedRows(insertRow(memories, nextId, c.content, c.mainType, c.domain, 85,
                                                  "cluster-merge"), c.members)
             /\ memories_vec' = deletedVecs(memories_vec, c.members)
             /\ clusters' = mergedCluster(clusters, c.clusterId)
             /\ calls' = [calls EXCEPT ![s] = Idle]
             /\ lastOp' = [Op("merged", nextId) EXCEPT !.cluster = c.clusterId, !.members = c.members]

\* the embedder answered: vector insert (a failure is ignored), then the members are
\* deleted and the cluster is marked merged
MergeEmbedded(s, embedding, vecInsertOk) ==
  LET c == calls[s]
      withNew == IF embedding # NoVec /\ vecInsertOk
                 THEN [i \in DOMAIN memories_vec \cup {c.memoryId} |->
                         IF i = c.memoryId THEN embedding ELSE memories_vec[i]]
                 ELSE memories_vec
  IN /\ c.pc = "merge_embed"
     /\ memories' = deletedRows(memories, c.members)
     /\ memories_vec' = deletedVecs(withNew, c.members)
     /\ clusters' = mergedCluster(clusters, c.clusterId)
     /\ calls' = [calls EXCEPT ![s] = Idle]
     /\ lastOp' = [Op("merged", c.memoryId) EXCEPT !.cluster = c.clusterId, !.members = c.members]
     /\ UNCHANGED <<nextId, ops>>

\* ------------------------------------------------------ failing statements
\* A statement of better-sqlite3 throws (SQLITE_BUSY while another process holds
\* the write lock, SQLITE_FULL, ...).  Outside a try block the exception ends the
\* call; the statements that already ran are not undone, no call opens a transaction.

\* save: the vector is inserted, tryJoinCluster sets the Record's cluster_id, and
\* its UPDATE clusters throws
SaveEmbeddedJoinFails(s, embedding, vecInsertOk) ==
  LET c == calls[s]
      joined == tryJoinCluster(memories, clusters, c.memoryId, embedding, c.domain, c.confidence)
  IN /\ c.pc = "embed"
     /\ embedding # NoVec
     /\ joined.joined # 0
     /\ memories_vec' = IF vecInsertOk
                        THEN [i \in DOMAIN memories_vec \cup {c.memoryId} |->
                                IF i = c.memoryId THEN embedding ELSE memories_vec[i]]
                        ELSE memories_vec
     /\ memories' = joined.memories
     /\ calls' = [calls EXCEPT ![s] = Idle]
     /\ lastOp' = [Op("join-failed", c.memoryId) EXCEPT !.cluster = joined.joined]
     /\ UNCHANGED <<nextId, clusters, ops>>

\* mergeClusterMemories after the embedder answered: n members are deleted, then the
\* DELETE FROM memories of the next one throws, after its vector was deleted.  The
\* order of the members is taken from the rows as they are now.
MergeEmbeddedFails(s, embedding, vecInsertOk, n) ==
  LET c == calls[s]
      order == membersInOrder(c.members \cap DOMAIN memories, memories)
      withNew == IF embedding # NoVec /\ vecInsertOk
                 THEN [i \in DOMAIN memories_vec \cup {c.memoryId} |->
                         IF i = c.memoryId THEN embedding ELSE memories_vec[i]]
                 ELSE memories_vec
  IN /\ c.pc = "merge_embed"
     /\ n < Len(order)
     /\ memories' = deletedRows(memories, SeqRange(Take(order, n)))
     /\ memories_vec' = deletedVecs(withNew, SeqRange(Take(order, n + 1)))
     /\ calls' = [calls EXCEPT ![s] = Idle]
     /\ lastOp' = [Op("merge-failed", c.memoryId) EXCEPT !.cluster = c.clusterId, !.members = c.members]
     /\ UNCHANGED <<nextId, clusters, ops>>

\* ------------------------------------------------------ rebuildAllEmbeddings

\* buildEmbeddingText(content, domain): "[domain] content", no prefix for 'general'
buildEmbeddingText(content, domain) ==
  IF domain # "" /\ domain # "general" THEN << <<domain, "tag">> >> \o content ELSE content

\* the embedder as a function of its input text: the vector depends on the domain
\* prefix and on the words
embed(text) ==
  IF text = <<>> THEN <<5, 0>>
  ELSE IF text[1][2] # "tag" THEN <<5, 0>>
  ELSE IF \E i \in 1..Len(text) : text[i][1] = "db" THEN <<4, 3>>
  ELSE <<3, 4>>

\* SELECT id, content, structured_content, domain FROM memories, in rowid order;
\* content stands for structured_content || content, which no statement changes
rebuildRows(mems) ==
  LET ids == SortAsc(DOMAIN mems)
  IN [p \in 1..Len(ids) |-> [id |-> ids[p], content |-> mems[ids[p]].content,
                              domain |-> mems[ids[p]].domain]]

\* rebuildAllEmbeddings(): reads the rows, drops and recreates memories_vec, and
\* suspends on the embedder for the first row (with no row it returns at once)
RebuildBegin(s) ==
  LET rows == rebuildRows(memories)
  IN /\ freeSlot(s)
     /\ memories_vec' = <<>>
     /\ IF rows = <<>>
        THEN /\ calls' = calls
             /\ lastOp' = Op("rebuilt", 0)
        ELSE /\ calls' = [calls EXCEPT ![s] = [Idle EXCEPT !.pc = "rebuild", !.rows = rows]]
             /\ lastOp' = NoOp
     /\ UNCHANGED <<memories, nextId, clusters, ops>>

\* the embedder answered for the next row: INSERT INTO memories_vec (a rowid that
\* is already there makes the INSERT throw); after the last row the call returns
RebuildEmbedded(s, embedding, vecInsertOk) ==
  LET c == calls[s]
      row == Head(c.rows)
      inserted == embedding # NoVec /\ vecInsertOk /\ row.id \notin DOMAIN memories_vec
      success == c.success + (IF inserted THEN 1 ELSE 0)
      failed == c.failed + (IF inserted THEN 0 ELSE 1)
  IN /\ c.pc = "rebuild"
     /\ memories_vec' = IF inserted
                        THEN [i \in DOMAIN memories_vec \cup {row.id} |->
                                IF i = row.id THEN embedding ELSE memories_vec[i]]
                        ELSE memories_vec
     /\ IF Len(c.rows) = 1
        THEN /\ calls' = [calls EXCEPT ![s] = Idle]
             /\ lastOp' = [Op("rebuilt", 0) EXCEPT !.rebuilt = success, !.failed = failed]
        ELSE /\ calls' = [calls EXCEPT ![s] = [c EXCEPT !.rows = Tail(@), !.success = success,
                                                        !.failed = failed]]
             /\ lastOp' = NoOp
     /\ UNCHANGED <<memories, nextId, clusters, ops>>

\* ------------------------------------------------------------------- search
\* Queries are English word sequences; scores are integers: bm25Score in tenths,
\* vectorSimilarity in hundredths, combinedScore in thousandths.

\* bm25(memories_fts) is SQLite's: any of these magnitudes, one below and one
\* above the cap of the normalisation
Bm25Scores == {5, 120}

\* An item <<c, "c">> of a text is one CJK character c (written in pinyin); items
\* of the other cases are ASCII words.  Adjacent CJK items form one run.

\* query.match(/[a-zA-Z_][a-zA-Z0-9_]*/g)
englishWords(query) == SelectSeq(query, LAMBDA w : w[2] # "c")

RECURSIVE cjkRuns(_, _, _)
cjkRuns(t, i, run) ==
  LET done == IF run = <<>> THEN <<>> ELSE <<run>>
  IN IF i > Len(t) THEN done
     ELSE IF t[i][2] = "c" THEN cjkRuns(t, i + 1, Append(run, t[i][1]))
     ELSE done \o cjkRuns(t, i + 1, <<>>)

\* query.match(/[\u4e00-\u9fff]+/g): the runs of CJK characters
chineseChars(query) == cjkRuns(query, 1, <<>>)

\* the 2-grams of a run, then its 3-grams
ngramsOf(segment) ==
  [i \in 1..(Len(segment) - 1) |-> SubSeq(segment, i, i + 1)]
    \o [i \in 1..(Len(segment) - 2) |-> SubSeq(segment, i, i + 2)]

RECURSIVE chineseNgrams(_, _)
\* the Set of n-grams in insertion order: a repeated n-gram keeps its first place
chineseNgrams(segments, seen) ==
  IF segments = <<>> THEN seen
  ELSE LET fresh == ngramsOf(Head(segments))
           keep == {i \in 1..Len(fresh) :
                      /\ fresh[i] \notin SeqRange(seen)
                      /\ \A j \in 1..(i - 1) : fresh[j] # fresh[i]}
           order == SortAsc(keep)
       IN chineseNgrams(Tail(segments), seen \o [p \in 1..Len(order) |-> fresh[order[p]]])

stopNgrams ==
  {<<"shi", "duo">>, <<"duo", "shao">>, <<"shen", "me">>, <<"zen", "me">>,
   <<"ru", "he">>, <<"wei", "shen">>, <<"wei", "he">>}

\* [...chineseNgrams].filter(ng => !stopNgrams.has(ng)).slice(0, 10)
filteredNgrams(query) ==
  LET all == chineseNgrams(chineseChars(query), <<>>)
      kept == SelectSeq(all, LAMBDA ng : ng \notin stopNgrams)
  IN SubSeq(kept, 1, Min(10, Len(kept)))

\* searchText.includes(ng), content LIKE '%ng%'
includesNgram(text, ng) ==
  \E k \in 0..(Len(text) - Len(ng)) : \A j \in 1..Len(ng) : text[k + j] = <<ng[j], "c">>

\* filteredNgrams.filter(ng => searchText.includes(ng)).length
matchCount(text, ngs) == Cardinality({p \in 1..Len(ngs) : includesNgram(text, ngs[p])})

\* memories_fts MATCH '"w1" OR "w2" ...': the rows sharing a token with the query
ftsMatches(mems, query) ==
  {i \in DOMAIN mems : lowerWords(mems[i].content) \cap lowerWords(englishWords(query)) # {}}

\* content LIKE '%query%'
likeMatches(mems, query) ==
  {i \in DOMAIN mems :
     \E k \in 0..(Len(mems[i].content) - Len(query)) :
       \A j \in 1..Len(query) : mems[i].content[k + j][1] = query[j][1]}

resultRow(mems, id, bm25Score, vectorSimilarity) ==
  [id |-> id, type |-> mems[id].type, domain |-> mems[id].domain,
   confidence |-> mems[id].confidence, bm25Score |-> bm25Score,
   vectorSimilarity |-> vectorSimilarity, combinedScore |-> 0]

\* path 1 of quickSearch: ... WHERE memories_fts MATCH ? ORDER BY bm25(memories_fts) LIMIT limit * 2
ftsResultRows(mems, query, limit, bm) ==
  LET hit == SortAsc(ftsMatches(mems, query))
  IN IF englishWords(query) = <<>> THEN <<>>
     ELSE SubSeq(stableSortDesc(hit, [p \in 1..Len(hit) |-> bm[hit[p]]]), 1, Min(limit * 2, Len(hit)))

\* path 2 of quickSearch: ... WHERE (content LIKE ? OR structured_content LIKE ?) OR ... LIMIT limit * 2
likeResultRows(mems, query, limit) ==
  LET ngs == filteredNgrams(query)
      hit == SortAsc({i \in DOMAIN mems : matchCount(mems[i].content, ngs) > 0})
  IN SubSeq(hit, 1, Min(limit * 2, Len(hit)))

\* quickSearch(query, limit) without options, bm the bm25 magnitude of each row
quickSearch(mems, query, limit, bm) ==
  LET ftsRows == ftsResultRows(mems, query, limit, bm)
      \* if (!results.has(r.id))
      ngramRows == SelectSeq(likeResultRows(mems, query, limit), LAMBDA i : i \notin SeqRange(ftsRows))
      fallbackRows == IF ftsRows = <<>> /\ ngramRows = <<>> /\ query # <<>>
                      THEN LET hit == SortAsc(likeMatches(mems, query))
                           IN SubSeq(hit, 1, Min(limit, Len(hit)))
                      ELSE <<>>
      results == [p \in 1..Len(ftsRows) |-> resultRow(mems, ftsRows[p], bm[ftsRows[p]], 0)]
                   \o [p \in 1..Len(ngramRows) |->
                         resultRow(mems, ngramRows[p],
                                   5 * matchCount(mems[ngramRows[p]].content, filteredNgrams(query)), 0)]
                   \o [p \in 1..Len(fallbackRows) |-> resultRow(mems, fallbackRows[p], 3, 0)]
      sorted == stableSortDesc(results, [p \in 1..Len(results) |-> results[p].bm25Score])
  IN SubSeq(sorted, 1, Min(limit, Len(sorted)))

\* SELECT rowid, distance FROM memories_vec WHERE embedding MATCH ? ORDER BY distance LIMIT ?
vecResults(vecs, embedding, limit) ==
  LET ids == SortAsc(DOMAIN vecs)
  IN Take(stableSortDesc(ids, [p \in 1..Len(ids) |-> cosineSimilarity(vecs[ids[p]], embedding)]), limit)

passesFilters(r, options) ==
  /\ r.confidence >= options.minConfidence
  /\ (options.type = "" \/ r.type = options.type)
  /\ (options.domain = "" \/ r.domain = options.domain)

combinedScore(r) == 7 * r.vectorSimilarity + 3 * Min(r.bm25Score, 100)

\* a faulty variant: the comparator a.combinedScore - b.combinedScore
byCombinedScoreAscending(rows) ==
  stableSortDesc(rows, [p \in 1..Len(rows) |-> 0 - rows[p].combinedScore])

byCombinedScore(rows) == stableSortDesc(rows, [p \in 1..Len(rows) |-> rows[p].combinedScore])

\* the part of search(query, limit, options) after the embedder answered
searchResults(mems, vecs, ftsResults, embedding, limit, options) ==
  LET near == IF embedding = NoVec THEN <<>> ELSE vecResults(vecs, embedding, limit * 2)
      sim(id) == cosineSimilarity(vecs[id], embedding)
      ftsIds == {ftsResults[p].id : p \in 1..Len(ftsResults)}
      existing == [p \in 1..Len(ftsResults) |->
                     IF ftsResults[p].id \in SeqRange(near)
                     THEN [ftsResults[p] EXCEPT !.vectorSimilarity = sim(ftsResults[p].id)]
                     ELSE ftsResults[p]]
      fresh == Filter(near, DOMAIN mems \ ftsIds)
      added == [p \in 1..Len(fresh) |-> resultRow(mems, fresh[p], 0, sim(fresh[p]))]
      Keep(r) == passesFilters(r, options)
      kept == SelectSeq(existing \o added, Keep)
      scored == [p \in 1..Len(kept) |-> [kept[p] EXCEPT !.combinedScore = combinedScore(kept[p])]]
  IN [results |-> Take(byCombinedScore(scored), limit), candidates |-> Len(kept)]

\* hybridSearch(query, limit, options): what reaches memoryDb.search.  Through
\* the embedding service the call is embeddingClient.search(query, limit), and
\* the service runs search(query, limit || 3, options || {}).
hybridSearch(useEmbeddingService, limit, options) ==
  IF useEmbeddingService
  THEN [limit |-> IF limit = 0 THEN 3 ELSE limit, options |-> NoOptions]
  ELSE [limit |-> limit, options |-> options]

\* search(query, limit, options), or the memory_search tool (tool): quickSearch
\* runs, then the call suspends on the embedder
SearchBegin(s, query, limit, options, tool, useEmbeddingService, bm) ==
  LET eff == IF tool THEN hybridSearch(useEmbeddingService, limit, options)
             ELSE [limit |-> limit, options |-> options]
  IN /\ freeSlot(s)
     /\ tool \/ ~useEmbeddingService
     /\ tool => options.minConfidence = 0
     /\ ops < MaxOps
     /\ ops' = ops + 1
     /\ calls' = [calls EXCEPT ![s] =
                    [Idle EXCEPT !.pc = "search_embed",
                                 !.req = [query |-> query, limit |-> eff.limit, options |-> eff.options,
                                          asked |-> options, tool |-> tool,
                                          fts |-> quickSearch(memories, query, eff.limit * 2, bm)]]]
     /\ lastOp' = NoOp
     /\ UNCHANGED <<memories, nextId, memories_vec, clusters>>

\* the embedder answered: vector rows are merged in, then filter, score, sort and
\* slice; memory_search marks what it returns as used
SearchEmbedded(s, embedding) ==
  LET r == calls[s].req
      out == searchResults(memories, memories_vec, r.fts, embedding, r.limit, r.options)
      usedIds == {out.results[p].id : p \in 1..Len(out.results)}
  IN /\ calls[s].pc = "search_embed"
     /\ memories' = IF r.tool THEN markedUsed(memories, usedIds) ELSE memories
     /\ calls' = [calls EXCEPT ![s] = Idle]
     /\ lastOp' = [Op("search", 0) EXCEPT !.results = out.results, !.limit = r.limit,
                                         !.asked = r.asked, !.candidates = out.candidates,
                                         !.tool = r.tool]
     /\ UNCHANGED <<nextId, memories_vec, clusters, ops>>

\* the quickSearch request of the embedding server: memoryDb.quickSearch(query, limit)
QuickSearch(query, limit, bm) ==
  /\ lastOp' = [Op("quickSearch", 0) EXCEPT !.results = quickSearch(memories, query, limit, bm),
                                            !.limit = limit]
  /\ UNCHANGED <<memories, nextId, memories_vec, clusters, calls, ops>>

\* ---------------------------------------------------------- user-prompt hook
\* One hook process per slot.  A text is a sequence of characters; the token
\* "{prompt:" stands for the 11 characters {"prompt":" and "}" for the 2
\* characters "} of a JSON wrapper.  stdout is the sequence of writes made.

MIN_QUERY_LENGTH == 5
MIN_MESSAGE_LENGTH == 10
\* config.search.minSimilarity, in hundredths
MIN_SIMILARITY == 60

Whitespace == {" ", "\n"}

charLength(tok) == IF tok = "{prompt:" THEN 11 ELSE IF tok = "}" THEN 2 ELSE 1

RECURSIVE textLength(_)
textLength(t) == IF t = <<>> THEN 0 ELSE charLength(Head(t)) + textLength(Tail(t))

\* String.prototype.trim()
RECURSIVE trimStart(_)
trimStart(t) == IF t # <<>> /\ Head(t) \in Whitespace THEN trimStart(Tail(t)) ELSE t

RECURSIVE trimEnd(_)
trimEnd(t) ==
  IF t # <<>> /\ t[Len(t)] \in Whitespace THEN trimEnd(SubSeq(t, 1, Len(t) - 1)) ELSE t

trim(t) == trimEnd(trimStart(t))

\* extractUserPrompt(rawInput): the prompt field of a JSON wrapper, else the input
extractUserPrompt(rawInput) ==
  IF Len(rawInput) > 2 /\ rawInput[1] = "{prompt:" /\ rawInput[Len(rawInput)] = "}"
  THEN SubSeq(rawInput, 2, Len(rawInput) - 1)
  ELSE rawInput

\* console.log(text)
consoleLog(text) == text \o <<"\n">>

\* formatReminder(memories)
formatReminder(results) ==
  <<"<memory_context>">> \o [p \in 1..Len(results) |-> ToString(results[p].id)]
    \o <<"</memory_context>">>

\* raw.filter(m => (m.vectorSimilarity || 0) >= MIN_SIMILARITY), [] for null
similarEnough(raw) ==
  LET Keep(m) == m.vectorSimilarity >= MIN_SIMILARITY
  IN IF raw.kind = "rows" THEN SelectSeq(raw.rows, Keep) ELSE <<>>

\* what searchViaEmbedding resolves with: null (timeout, socket error, bad JSON,
\* success false), the rows of the response, or a results field that is no array
SearchReplies ==
  {[kind |-> "null", rows |-> <<>>],
   [kind |-> "rows", rows |-> <<>>],
   [kind |-> "rows", rows |-> <<[id |-> 1, vectorSimilarity |-> 80]>>],
   [kind |-> "rows", rows |-> <<[id |-> 1, vectorSimilarity |-> 50]>>],
   [kind |-> "rows", rows |-> <<[id |-> 1, vectorSimilarity |-> 80], [id |-> 2, vectorSimilarity |-> 50]>>],
   [kind |-> "object", rows |-> <<>>]}

hookSlotFree(s) == calls[s].pc \in {"idle", "hook_exited"}

\* main() up to its first await after stdin was read: the timer is armed; a short
\* message is written back at once; a prompt shorter than 5 is written back
\* without search; otherwise main suspends on searchViaEmbedding
HookMain(s, rawStdin) ==
  LET userMessage == trim(rawStdin)
      query == extractUserPrompt(userMessage)
      frame == [Idle EXCEPT !.stdin = rawStdin, !.content = userMessage]
  IN /\ hookSlotFree(s)
     /\ IF userMessage = <<>> \/ textLength(userMessage) < MIN_MESSAGE_LENGTH
           \/ textLength(query) < MIN_QUERY_LENGTH
        THEN calls' = [calls EXCEPT ![s] = [frame EXCEPT !.pc = "hook_exited", !.timer = "cleared",
                                                         !.resolved = TRUE,
                                                         !.stdout = <<consoleLog(userMessage)>>]]
        ELSE calls' = [calls EXCEPT ![s] = [frame EXCEPT !.pc = "hook_search", !.timer = "armed"]]
     /\ lastOp' = NoOp
     /\ UNCHANGED <<memories, nextId, memories_vec, clusters, ops>>

\* a faulty variant: the timer callback without the resolved flag and the exit
HookTimerWithoutExit(s) ==
  LET c == calls[s]
  IN /\ c.pc = "hook_search"
     /\ c.timer = "armed"
     /\ calls' = [calls EXCEPT ![s] = [c EXCEPT !.timer = "fired",
                                                !.stdout = Append(@, consoleLog(c.content))]]
     /\ lastOp' = NoOp
     /\ UNCHANGED <<memories, nextId, memories_vec, clusters, ops>>

\* the timer callback: if (!resolved) { resolved = true; console.log; process.exit(0) }
HookTimer(s) ==
  LET c == calls[s]
  IN /\ c.pc = "hook_search"
     /\ c.timer = "armed"
     /\ calls' = [calls EXCEPT ![s] =
                    IF c.resolved THEN [c EXCEPT !.timer = "fired"]
                    ELSE [c EXCEPT !.timer = "fired", !.resolved = TRUE, !.pc = "hook_exited",
                                   !.stdout = Append(@, consoleLog(c.content)), !.status = 0]]
     /\ lastOp' = NoOp
     /\ UNCHANGED <<memories, nextId, memories_vec, clusters, ops>>

\* searchViaEmbedding resolved: filter, format (a results field without filter()
\* throws into the catch block), clearTimeout, write unless resolved; the process
\* ends when main has returned
HookSearchDone(s, raw) ==
  LET c == calls[s]
      results == similarEnough(raw)
      memoryContext == IF Len(results) > 0 THEN formatReminder(results) ELSE <<>>
      output == IF memoryContext # <<>> THEN memoryContext \o <<"\n", "\n">> ELSE <<>>
      written == IF raw.kind = "object" THEN consoleLog(c.content)
                 ELSE consoleLog(output \o c.content)
  IN /\ c.pc = "hook_search"
     /\ calls' = [calls EXCEPT ![s] =
                    [c EXCEPT !.pc = "hook_exited", !.resolved = TRUE,
                              !.timer = IF @ = "armed" THEN "cleared" ELSE @,
                              !.stdout = IF c.resolved THEN @ ELSE Append(@, written),
                              !.status = 0]]
     /\ lastOp' = NoOp
     /\ UNCHANGED <<memories, nextId, memories_vec, clusters, ops>>

\* ------------------------------------------------------------ calcTimeDecay
\* Weights are in thousandths, times in days; createdAt = 0 is a missing value.

NoDecay == [halfLifeDays |-> 0, infinite |-> TRUE, minWeight |-> 1000]

TimeDecay(halfLifeDays, minWeight) ==
  [halfLifeDays |-> halfLifeDays, infinite |-> FALSE, minWeight |-> minWeight]

TIME_DECAY_CONFIG ==
  [fact |-> TimeDecay(90, 300), decision |-> TimeDecay(90, 300), bug |-> TimeDecay(60, 300),
   pattern |-> TimeDecay(90, 400), preference |-> TimeDecay(60, 200),
   context |-> TimeDecay(30, 200), session |-> TimeDecay(14, 100),
   learned |-> TimeDecay(90, 400), skill |-> NoDecay, permanent |-> NoDecay]

\* TIME_DECAY_CONFIG[memoryType] || TIME_DECAY_CONFIG.context
decayConfig(memoryType) ==
  IF memoryType \in DOMAIN TIME_DECAY_CONFIG THEN TIME_DECAY_CONFIG[memoryType]
  ELSE TIME_DECAY_CONFIG["context"]

RECURSIVE powerOfTwo(_)
powerOfTwo(n) == IF n = 0 THEN 1 ELSE 2 * powerOfTwo(n - 1)

\* Math.pow(0.5, ageDays / halfLifeDays) in thousandths, rounded down; exact on
\* the ages that are multiples of half a half-life
powHalf(ageDays, halfLifeDays) ==
  LET j == (2 * ageDays) \div halfLifeDays
  IN CHOOSE r \in 0..1000 :
       /\ r * r * powerOfTwo(j) <= 1000000
       /\ (r + 1) * (r + 1) * powerOfTwo(j) > 1000000

\* a faulty variant: Math.min in place of Math.max
calcTimeDecayMin(createdAt, now, memoryType) ==
  LET config == decayConfig(memoryType)
  IN IF createdAt = 0 THEN 1000
     ELSE IF config.infinite THEN 1000
     ELSE Min(powHalf(now - createdAt, config.halfLifeDays), config.minWeight)

\* calcTimeDecay(createdAt, memoryType) at the time now
calcTimeDecay(createdAt, now, memoryType) ==
  LET config == decayConfig(memoryType)
  IN IF createdAt = 0 THEN 1000
     ELSE IF config.infinite THEN 1000
     ELSE Max(powHalf(now - createdAt, config.halfLifeDays), config.minWeight)

\* the ages on which powHalf is exact and its products stay below 2^31
decayInput(createdAt, now, memoryType) ==
  LET config == decayConfig(memoryType)
      ageDays == now - createdAt
  IN createdAt # 0 /\ ~config.infinite =>
       /\ (2 * ageDays) % config.halfLifeDays = 0
       /\ ageDays <= MaxHalfLives * config.halfLifeDays

CalcTimeDecay(createdAt, now, memoryType) ==
  /\ lastOp' = [Op("decay", 0) EXCEPT !.decay = calcTimeDecay(createdAt, now, memoryType),
                                      !.age = now - createdAt, !.type = memoryType,
                                      !.created = createdAt]
  /\ UNCHANGED <<memories, nextId, memories_vec, clusters, calls, ops>>

\* ------------------------------------------------------- boundary requests
\* sendRequest of the embedding client and request of the LLM client: a promise,
\* a socket, a timer and the flag resolved.  A response is a sequence of tokens:
\* "A" "B" are the two halves of a success response, "F" is a response with
\* success false, "\n" ends a line.  outcomes is the sequence of calls of
\* resolve / reject, events the sequence of callbacks that ran.

Clients == {"embedding", "llm"}

Chunks == {<<"A">>, <<"B", "\n">>, <<"A", "B", "\n">>, <<"F", "\n">>, <<"\n">>}

\* buffer.split('\n')
RECURSIVE splitLines(_, _)
splitLines(text, acc) ==
  IF text = <<>> THEN <<acc>>
  ELSE IF Head(text) = "\n" THEN <<acc>> \o splitLines(Tail(text), <<>>)
  ELSE splitLines(Tail(text), Append(acc, Head(text)))

\* JSON.parse(line) and the test of response.success
settlement(line, by) ==
  IF line = <<"A", "B">> THEN [type |-> "resolve", value |-> "response", by |-> by]
  ELSE IF line = <<"F">> THEN [type |-> "reject", value |-> "server-error", by |-> by]
  ELSE [type |-> "reject", value |-> "invalid-response", by |-> by]

requestSlotFree(s) ==
  \/ calls[s].pc = "idle"
  \/ calls[s].pc = "request" /\ calls[s].resolved /\ calls[s].socket = "closed"
       /\ calls[s].timer # "armed"

\* new Promise(...): the timer is set and the socket connects
RequestBegin(s, client) ==
  /\ requestSlotFree(s)
  /\ calls' = [calls EXCEPT ![s] = [Idle EXCEPT !.pc = "request", !.client = client,
                                                !.timer = "armed", !.socket = "open"]]
  /\ lastOp' = NoOp
  /\ UNCHANGED <<memories, nextId, memories_vec, clusters, ops>>

\* the timer callback
RequestTimer(s) ==
  LET c == calls[s]
      ev == [name |-> "timer", chunk |-> <<>>]
  IN /\ c.pc = "request"
     /\ c.timer = "armed"
     /\ calls' = [calls EXCEPT ![s] =
                    IF c.resolved THEN [c EXCEPT !.timer = "fired", !.events = Append(@, ev)]
                    ELSE [c EXCEPT !.timer = "fired", !.events = Append(@, ev), !.resolved = TRUE,
                                   !.socket = IF @ = "open" THEN "destroyed" ELSE @,
                                   !.outcomes = Append(@, [type |-> "reject", value |-> "timeout",
                                                           by |-> "timer"])]]
     /\ lastOp' = NoOp
     /\ UNCHANGED <<memories, nextId, memories_vec, clusters, ops>>

\* socket.on('data').  sendRequest settles on the first line that is not blank,
\* whether or not its newline has arrived; request waits until the response ends
\* with a newline, clears the timer and parses the whole response.
RequestData(s, chunk) ==
  LET c == calls[s]
      ev == [name |-> "data", chunk |-> chunk]
      buffer == c.buffer \o chunk
      lines == splitLines(buffer, <<>>)
      filled == {p \in 1..Len(lines) : lines[p] # <<>>}
      first == lines[CHOOSE p \in filled : \A q \in filled : p <= q]
      complete == IF c.client = "embedding" THEN filled # {} ELSE buffer[Len(buffer)] = "\n"
      line == IF c.client = "embedding" THEN first ELSE trim(buffer)
  IN /\ c.pc = "request"
     /\ c.socket = "open"
     /\ Len(SelectSeq(c.events, LAMBDA e : e.name = "data")) < MaxChunks
     /\ calls' = [calls EXCEPT ![s] =
                    IF complete /\ ~c.resolved
                    THEN [c EXCEPT !.buffer = buffer, !.events = Append(@, ev), !.resolved = TRUE,
                                   !.timer = IF @ = "armed" THEN "cleared" ELSE @,
                                   !.socket = "destroyed",
                                   !.outcomes = Append(@, settlement(line, "data"))]
                    ELSE [c EXCEPT !.buffer = buffer, !.events = Append(@, ev),
                                   !.timer = IF complete /\ c.client = "llm" /\ @ = "armed"
                                             THEN "cleared" ELSE @]]
     /\ lastOp' = NoOp
     /\ UNCHANGED <<memories, nextId, memories_vec, clusters, ops>>

\* socket.on('error'): the socket is closed after it
RequestError(s) ==
  LET c == calls[s]
      ev == [name |-> "error", chunk |-> <<>>]
  IN /\ c.pc = "request"
     /\ c.socket = "open"
     /\ calls' = [calls EXCEPT ![s] =
                    IF c.resolved
                    THEN [c EXCEPT !.socket = "destroyed", !.events = Append(@, ev),
                                   !.timer = IF c.client = "llm" /\ @ = "armed" THEN "cleared" ELSE @]
                    ELSE [c EXCEPT !.socket = "destroyed", !.events = Append(@, ev), !.resolved = TRUE,
                                   !.timer = IF @ = "armed" THEN "cleared" ELSE @,
                                   !.outcomes = Append(@, [type |-> "reject", value |-> "socket-error",
                                                           by |-> "error"])]]
     /\ lastOp' = NoOp
     /\ UNCHANGED <<memories, nextId, memories_vec, clusters, ops>>

\* a faulty variant: the close handler without the test of resolved
RequestCloseUnguarded(s) ==
  LET c == calls[s]
      ev == [name |-> "close", chunk |-> <<>>]
  IN /\ c.pc = "request"
     /\ c.socket \in {"open", "destroyed"}
     /\ calls' = [calls EXCEPT ![s] =
                    IF c.client = "embedding"
                    THEN [c EXCEPT !.socket = "closed", !.events = Append(@, ev)]
                    ELSE [c EXCEPT !.socket = "closed", !.events = Append(@, ev), !.resolved = TRUE,
                                   !.timer = IF @ = "armed" THEN "cleared" ELSE @,
                                   !.outcomes = Append(@, [type |-> "reject", value |-> "closed",
                                                           by |-> "close"])]]
     /\ lastOp' = NoOp
     /\ UNCHANGED <<memories, nextId, memories_vec, clusters, ops>>

\* the socket closed: the peer ended the connection, or destroy() or an error came
\* before.  sendRequest has no close handler; request rejects unless resolved.
RequestClose(s) ==
  LET c == calls[s]
      ev == [name |-> "close", chunk |-> <<>>]
  IN /\ c.pc = "request"
     /\ c.socket \in {"open", "destroyed"}
     /\ calls' = [calls EXCEPT ![s] =
                    IF c.client = "embedding"
                    THEN [c EXCEPT !.socket = "closed", !.events = Append(@, ev)]
                    ELSE IF c.resolved
                    THEN [c EXCEPT !.socket = "closed", !.events = Append(@, ev),
                                   !.timer = IF @ = "armed" THEN "cleared" ELSE @]
                    ELSE [c EXCEPT !.socket = "closed", !.events = Append(@, ev), !.resolved = TRUE,
                                   !.timer = IF @ = "armed" THEN "cleared" ELSE @,
                                   !.outcomes = Append(@, [type |-> "reject", value |-> "closed",
                                                           by |-> "close"])]]
     /\ lastOp' = NoOp
     /\ UNCHANGED <<memories, nextId, memories_vec, clusters, ops>>

\* ------------------------------------------------------------ specification

\* confidences the MCP tool passes (zod: min 0.3, max 0.9) and one the transcript
\* analyzer passes on from the confidence attribute of the LLM's answer
ToolConfidences == {50}
AnalyzerConfidences == {95}
Boosts == {10, -25}
\* minConfidence of the session-end hook (MIN_CLUSTER_CONFIDENCE) and the default
MinConfidences == {60, 50}

\* the embeddings the embedder returns in the runs from the empty store
StoreVecs == {<<5, 0>>, <<3, 4>>}

SaveStep(texts, types, domains, vecs, cap) ==
  \/ \E s \in Slots, t \in texts, ty \in types, d \in domains :
       SaveDuplicate(s, t, ty, d)
  \/ \E s \in Slots, t \in texts, ty \in types, d \in domains, c \in ToolConfidences :
       roomFor(cap) /\ SaveBegin(s, t, ty, d, c, "mcp-tool")
  \/ \E s \in Slots, t \in texts, ty \in types, d \in domains, c \in AnalyzerConfidences :
       roomFor(cap) /\ SavePreStructured(s, t, ty, d, c, "compact-analyzer")
  \/ \E s \in Slots, r \in BOOLEAN : SaveStructurized(s, r)
  \/ \E s \in Slots, e \in vecs \cup {NoVec}, ok \in BOOLEAN : SaveEmbedded(s, e, ok)

Bookkeeping ==
  \/ \E id \in DOMAIN memories, v \in BOOLEAN : Validate(id, v)
  \/ \E id \in DOMAIN memories, b \in Boosts : AutoBoost(id, b)
  \/ \E ids \in SUBSET DOMAIN memories : MarkUsed(ids)
  \/ \E id \in DOMAIN memories : Delete(id)

Next ==
  \/ SaveStep(Texts, {"pattern"}, {"backend"}, StoreVecs, MaxRecords)
  \/ Bookkeeping
  \/ \E m \in MinConfidences, d \in {"", "backend"} : AutoCluster(m, d)
  \/ \E c \in 1..(Len(clusters) + 1) : MergeNull(c)

Spec == Init /\ [][Next]_vars

\* A store left by earlier processes (memory.db outlives them): five Records of
\* domain backend, saved with their vectors and clustered by autoCluster into one
\* mature cluster.
SeedIds == 1..CLUSTER_MATURITY_COUNT
SeedVec == <<5, 0>>
SeedRows ==
  LET r1 == insertRow(<<>>, 1, TextA, "pattern", "backend", 70, "mcp-tool")
      r2 == insertRow(r1, 2, TextB, "pattern", "backend", 70, "mcp-tool")
      r3 == insertRow(r2, 3, TextC, "pattern", "backend", 70, "mcp-tool")
      r4 == insertRow(r3, 4, TextA, "bug", "backend", 70, "mcp-tool")
  IN insertRow(r4, 5, TextB, "bug", "backend", 70, "mcp-tool")
SeedVecs == [i \in SeedIds |-> SeedVec]
SeedCluster == newClusterRow([i \in SeedIds |-> i], SeedRows, SeedVecs, "backend")

InitMerge ==
  /\ memories = [i \in SeedIds |-> [SeedRows[i] EXCEPT !.cluster_id = 1]]
  /\ nextId = CLUSTER_MATURITY_COUNT + 1
  /\ memories_vec = SeedVecs
  /\ clusters = <<SeedCluster>>
  /\ calls = [s \in Slots |-> Idle]
  /\ ops = 0
  /\ lastOp = NoOp

MergeStep(cap) ==
  \/ \E s \in Slots, c \in 1..Len(clusters) : roomFor(cap) /\ MergeBegin(s, c)
  \/ \E s \in Slots, merged \in BOOLEAN : MergeLLM(s, merged)
  \/ \E s \in Slots, e \in {SeedVec, NoVec}, ok \in BOOLEAN : MergeEmbedded(s, e, ok)
  \/ \E c \in 1..(Len(clusters) + 1) : MergeNull(c)

NextMerge ==
  \/ MergeStep(CLUSTER_MATURITY_COUNT + MaxRecords)
  \/ SaveStep({TextC}, {"bug"}, {"backend"}, StoreVecs, CLUSTER_MATURITY_COUNT + MaxRecords)
  \/ \E id \in DOMAIN memories, v \in BOOLEAN : Validate(id, v)
  \/ \E id \in DOMAIN memories : Delete(id)

SpecMerge == InitMerge /\ [][NextMerge]_vars

\* the seeded store, with saves and merges whose statements may throw
NextFault ==
  \/ MergeStep(CLUSTER_MATURITY_COUNT + MaxRecords)
  \/ SaveStep({TextC}, {"bug"}, {"backend"}, StoreVecs, CLUSTER_MATURITY_COUNT + MaxRecords)
  \/ \E s \in Slots, e \in StoreVecs, ok \in BOOLEAN : SaveEmbeddedJoinFails(s, e, ok)
  \/ \E s \in Slots, e \in {SeedVec, NoVec}, ok \in BOOLEAN, n \in 0..1 :
       MergeEmbeddedFails(s, e, ok, n)

SpecFault == InitMerge /\ [][NextFault]_vars

\* Saves of mutually similar Records into one domain of the empty store, one at a
\* time, every vector inserted; autoCluster is never run.
OnlineConfidences == {70}

NextOnline ==
  \/ \E t \in {TextA, TextB, TextC}, ty \in Types, c \in OnlineConfidences :
       /\ roomFor(CLUSTER_MATURITY_COUNT)
       /\ SavePreStructured(1, t, ty, "backend", c, "compact-analyzer")
  \/ \E t \in {TextA, TextB, TextC}, ty \in Types : SaveDuplicate(1, t, ty, "backend")
  \/ SaveEmbedded(1, SeedVec, TRUE)

SpecOnline == Init /\ [][NextOnline]_vars

\* The seeded store with two more Records, of domain testing, not clustered, whose
\* vectors equal those of the backend cluster.
DomainRows ==
  LET r6 == insertRow([i \in SeedIds |-> [SeedRows[i] EXCEPT !.cluster_id = 1]],
                      CLUSTER_MATURITY_COUNT + 1, TextA, "pattern", "testing", 70, "mcp-tool")
  IN insertRow(r6, CLUSTER_MATURITY_COUNT + 2, TextB, "pattern", "testing", 70, "mcp-tool")

InitDomains ==
  /\ memories = DomainRows
  /\ nextId = Len(DomainRows) + 1
  /\ memories_vec = [i \in DOMAIN DomainRows |-> SeedVec]
  /\ clusters = <<SeedCluster>>
  /\ calls = [s \in Slots |-> Idle]
  /\ ops = 0
  /\ lastOp = NoOp

NextDomains ==
  \/ SaveStep({TextC}, {"pattern"}, Domains, {SeedVec}, Len(DomainRows) + MaxRecords)
  \/ MergeStep(Len(DomainRows) + MaxRecords)
  \/ \E m \in MinConfidences, d \in {"", "testing"} : AutoCluster(m, d)

SpecDomains == InitDomains /\ [][NextDomains]_vars

\* A store left by earlier processes: three Records with their vectors, no cluster.
SearchRows ==
  LET r1 == insertRow(<<>>, 1, TextA, "pattern", "backend", 50, "mcp-tool")
      r2 == insertRow(r1, 2, TextB, "bug", "backend", 70, "mcp-tool")
  IN insertRow(r2, 3, TextC, "pattern", "testing", 70, "mcp-tool")

InitSearch ==
  /\ memories = SearchRows
  /\ nextId = Len(SearchRows) + 1
  /\ memories_vec = <<(<<5, 0>>), (<<4, 3>>), (<<3, 4>>)>>
  /\ clusters = <<>>
  /\ calls = [s \in Slots |-> Idle]
  /\ ops = 0
  /\ lastOp = NoOp

\* "db cache" matches the three rows, "ttl" one of them, the empty query none
Queries == {<< <<"db", "l">>, <<"cache", "u">> >>, << <<"ttl", "l">> >>, <<>>}
SearchOptions ==
  [minConfidence : {0, 60}, type : {"", "bug"}, domain : {"", "backend"}]

NextSearch ==
  \/ \E q \in Queries, k \in 0..MaxK, o \in SearchOptions, tool \in BOOLEAN, svc \in BOOLEAN :
     \E bm \in [ftsMatches(memories, q) -> Bm25Scores] :
       /\ \A s \in Slots : calls[s].pc = "idle"
       /\ SearchBegin(1, q, k, o, tool, svc, bm)
  \/ \E s \in Slots, e \in Vecs \cup {NoVec} : SearchEmbedded(s, e)
  \/ \E id \in DOMAIN memories, v \in BOOLEAN : Validate(id, v)
  \/ \E id \in DOMAIN memories : Delete(id)

SpecSearch == InitSearch /\ [][NextSearch]_vars

\* what the hook reads from stdin: short, empty, padded with white space, a JSON
\* wrapper with a short prompt, and one with a prompt long enough to search
HookInputs ==
  {<<"h", "i", "\n">>,
   <<"\n">>,
   <<" ", "f", "i", "x", " ", "t", "h", "e", " ", "b", "u", "g", "\n">>,
   <<"{prompt:", "h", "i", "}", "\n">>,
   <<"{prompt:", "f", "i", "x", " ", "i", "t", "}">>}

NextHook ==
  \/ \E s \in Slots, rawStdin \in HookInputs : HookMain(s, rawStdin)
  \/ \E s \in Slots : HookTimer(s)
  \/ \E s \in Slots, raw \in SearchReplies : HookSearchDone(s, raw)

SpecHook == Init /\ [][NextHook]_vars

\* A store left by earlier processes with one more Record in a bucket than the
\* dedup query reads: eleven Records of (pattern, backend) with their vectors, the
\* second and the third in a growing cluster.
DedupSeeds == DEDUP_RECENT + 1

dedupSeedText(k) ==
  IF k = 1 THEN TextC
  ELSE IF k = 2 THEN TextB
  ELSE IF k = DedupSeeds THEN TextA
  ELSE << <<ToString(k), "l">> >>

RECURSIVE dedupSeedRows(_)
dedupSeedRows(n) ==
  IF n = 0 THEN <<>>
  ELSE insertRow(dedupSeedRows(n - 1), n, dedupSeedText(n), "pattern", "backend",
                 IF n = DedupSeeds THEN 90 ELSE 70, "mcp-tool")

DedupVecs == [i \in 1..DedupSeeds |-> IF i \in {2, 3} THEN <<5, 0>> ELSE <<0, 5>>]

InitDedup ==
  /\ memories = [i \in 1..DedupSeeds |->
                   IF i \in {2, 3} THEN [dedupSeedRows(DedupSeeds)[i] EXCEPT !.cluster_id = 1]
                   ELSE dedupSeedRows(DedupSeeds)[i]]
  /\ nextId = DedupSeeds + 1
  /\ memories_vec = DedupVecs
  /\ clusters = <<newClusterRow(<<2, 3>>, dedupSeedRows(DedupSeeds), DedupVecs, "backend")>>
  /\ calls = [s \in Slots |-> Idle]
  /\ ops = 0
  /\ lastOp = NoOp

DedupTexts == {TextA, TextA2, TextB, TextC}

NextDedup ==
  \/ SaveStep(DedupTexts, {"pattern"}, {"backend"}, {<<0, 5>>}, DedupSeeds + MaxRecords)
  \/ \E id \in {2, DedupSeeds}, v \in BOOLEAN : Validate(id, v)

SpecDedup == InitDedup /\ [][NextDedup]_vars

\* A store left by earlier processes: the five Records of the mature backend
\* cluster and two more backend Records of confidence 0.50 with the same vector,
\* which the autoCluster run of the session-end hook (minConfidence 0.6) left out.
TieRows ==
  LET r6 == insertRow([i \in SeedIds |-> [SeedRows[i] EXCEPT !.cluster_id = 1]],
                      CLUSTER_MATURITY_COUNT + 1, TextC, "bug", "backend", 50, "mcp-tool")
  IN insertRow(r6, CLUSTER_MATURITY_COUNT + 2, TextA, "fact", "backend", 50, "mcp-tool")

InitTies ==
  /\ memories = TieRows
  /\ nextId = Len(TieRows) + 1
  /\ memories_vec = [i \in DOMAIN TieRows |-> SeedVec]
  /\ clusters = <<SeedCluster>>
  /\ calls = [s \in Slots |-> Idle]
  /\ ops = 0
  /\ lastOp = NoOp

NextTies ==
  \/ SaveStep({TextC}, {"fact"}, {"backend"}, {SeedVec, <<4, 3>>}, Len(TieRows) + MaxRecords)
  \/ \E m \in MinConfidences : AutoCluster(m, "")

SpecTies == InitTies /\ [][NextTies]_vars

\* A store left by earlier processes: four backend Records of confidence 0.65
\* with the same vector, which autoCluster put into one cluster that is still
\* growing (one member short of CLUSTER_MATURITY_COUNT).
GrowingIds == 1..(CLUSTER_MATURITY_COUNT - 1)
GrowingRows ==
  LET r1 == insertRow(<<>>, 1, TextA, "pattern", "backend", 65, "mcp-tool")
      r2 == insertRow(r1, 2, TextB, "pattern", "backend", 65, "mcp-tool")
      r3 == insertRow(r2, 3, TextC, "pattern", "backend", 65, "mcp-tool")
  IN insertRow(r3, 4, TextA, "bug", "backend", 65, "mcp-tool")
GrowingCluster ==
  newClusterRow([i \in GrowingIds |-> i], GrowingRows, [i \in GrowingIds |-> SeedVec], "backend")

InitJoin ==
  /\ memories = [i \in GrowingIds |-> [GrowingRows[i] EXCEPT !.cluster_id = 1]]
  /\ nextId = CLUSTER_MATURITY_COUNT
  /\ memories_vec = [i \in GrowingIds |-> SeedVec]
  /\ clusters = <<GrowingCluster>>
  /\ calls = [s \in Slots |-> Idle]
  /\ ops = 0
  /\ lastOp = NoOp

NextJoin ==
  \/ SaveStep({TextC}, {"fact"}, {"backend", "testing"}, {SeedVec, <<0, 5>>},
              CLUSTER_MATURITY_COUNT - 1 + MaxRecords)
  \/ \E id \in DOMAIN memories : Delete(id)

SpecJoin == InitJoin /\ [][NextJoin]_vars

\* A store left by earlier processes: Records whose content mixes an identifier
\* with a CJK run (shu ju ku, "database"), has one of the two, or neither.
LexicalRows ==
  LET db == <<"db", "l">>
      shu == <<"shu", "c">>
      ju == <<"ju", "c">>
      ku == <<"ku", "c">>
      r1 == insertRow(<<>>, 1, <<db, shu, ju, ku>>, "pattern", "backend", 70, "mcp-tool")
      r2 == insertRow(r1, 2, <<db, <<"pool", "l">>, shu, ju>>, "bug", "backend", 70, "mcp-tool")
      r3 == insertRow(r2, 3, <<shu, ju, ku>>, "pattern", "testing", 70, "mcp-tool")
  IN insertRow(r3, 4, TextC, "pattern", "testing", 70, "mcp-tool")

InitLexical ==
  /\ memories = LexicalRows
  /\ nextId = Len(LexicalRows) + 1
  /\ memories_vec = [i \in DOMAIN LexicalRows |-> SeedVec]
  /\ clusters = <<>>
  /\ calls = [s \in Slots |-> Idle]
  /\ ops = 0
  /\ lastOp = NoOp

\* a mixed query, a CJK query with a stop n-gram, an identifier query, a query
\* that only the whole-query LIKE matches, and the empty query
LexicalQueries ==
  {<< <<"db", "u">>, <<"shu", "c">>, <<"ju", "c">>, <<"ku", "c">> >>,
   << <<"duo", "c">>, <<"shao", "c">>, <<"shu", "c">>, <<"ju", "c">> >>,
   << <<"pool", "l">> >>,
   << <<"ku", "c">> >>,
   <<>>}

NextLexical ==
  \/ \E q \in LexicalQueries, k \in 0..MaxK :
       \E bm \in [ftsMatches(memories, q) -> Bm25Scores] : QuickSearch(q, k, bm)
  \/ \E id \in DOMAIN memories : Delete(id)

SpecLexical == InitLexical /\ [][NextLexical]_vars


\* A store left by earlier processes: two testing Records in a growing cluster
\* made by autoCluster, then five backend Records with the same vector, four of
\* confidence 0.70 and one of 0.50, which no cluster of their domain could host.
ClusterRows ==
  LET r1 == insertRow(<<>>, 1, TextA, "pattern", "testing", 70, "mcp-tool")
      r2 == insertRow(r1, 2, TextB, "pattern", "testing", 70, "mcp-tool")
      r3 == insertRow(r2, 3, TextA, "pattern", "backend", 70, "mcp-tool")
      r4 == insertRow(r3, 4, TextB, "pattern", "backend", 70, "mcp-tool")
      r5 == insertRow(r4, 5, TextC, "pattern", "backend", 70, "mcp-tool")
      r6 == insertRow(r5, 6, TextA, "bug", "backend", 70, "mcp-tool")
  IN insertRow(r6, 7, TextB, "bug", "backend", 50, "mcp-tool")

InitCluster ==
  /\ memories = [i \in DOMAIN ClusterRows |->
                   IF i <= 2 THEN [ClusterRows[i] EXCEPT !.cluster_id = 1] ELSE ClusterRows[i]]
  /\ nextId = Len(ClusterRows) + 1
  /\ memories_vec = [i \in DOMAIN ClusterRows |-> SeedVec]
  /\ clusters = <<newClusterRow(<<1, 2>>, ClusterRows, [i \in 1..2 |-> SeedVec], "testing")>>
  /\ calls = [s \in Slots |-> Idle]
  /\ ops = 0
  /\ lastOp = NoOp

NextCluster ==
  \/ SaveStep({TextC}, {"fact"}, {"backend", "testing"}, {SeedVec, <<3, 4>>}, Len(ClusterRows) + 1)
  \/ \E m \in MinConfidences, d \in {"", "backend"} : AutoCluster(m, d)

SpecCluster == InitCluster /\ [][NextCluster]_vars

\* ------------------------------------------------------------ analyzeAndSave
\* One session: its transcript, its state file compact-state-<sessionId>.json, the
\* detached analyzer the PreCompact hook spawns and the SessionEnd hook.  Their
\* frames are kept with the calls:
\*   calls[SessionFiles]  total = messages in the transcript, exists / lastLine = the
\*                        state file, sent[i] = requests to the LLM that carried message i
\*   calls[Background]    compact-analyzer.js in CLI mode; runs = processes that exited
\*   calls[SessionHook]   session-end-hook.js main()
\*   calls[HookCallee]    the call of mergeClusterMemories the hook awaits

HookCallee == 0
SessionHook == 3
Background == 4
SessionFiles == 5

\* messages of the longest transcript
MaxMessages == 10
\* analyzer processes the PreCompact hook spawns in one run
MaxRuns == 2
\* analyzeAndSave: "if (newMessages.length < 5)"
MIN_NEW_MESSAGES == 5
\* the memory the LLM extracts from the transcript
ExtractedConfidence == 80

\* allMessages.slice(lastProcessedLine): the positions of the new messages
newMessages(lastProcessedLine, total) == {i \in 1..total : i > lastProcessedLine}

\* fs.writeFileSync(stateFile, {lastLine: allMessages.length}); a failure is caught
stateWritten(files, total, writeOk) ==
  IF writeOk THEN [files EXCEPT !.exists = TRUE, !.lastLine = total] ELSE files

\* the PreCompact hook: main() spawns compact-analyzer.js detached
PreCompact(maxRuns) ==
  /\ calls[Background].pc = "idle"
  /\ calls[Background].runs < maxRuns
  /\ calls' = [calls EXCEPT ![Background].pc = "analyze"]
  /\ lastOp' = Op("spawned", 0)
  /\ UNCHANGED <<memories, nextId, memories_vec, clusters, ops>>

\* the session goes on: one more message in the transcript
TranscriptGrows ==
  /\ calls[SessionFiles].total < MaxMessages
  /\ calls[SessionHook].pc = "idle"
  /\ calls' = [calls EXCEPT ![SessionFiles].total = @ + 1]
  /\ lastOp' = Op("message", 0)
  /\ UNCHANGED <<memories, nextId, memories_vec, clusters, ops>>

\* analyzeAndSave up to "await loadMessagesFromTranscript": the state file is read
AnalyzeRead(a) ==
  /\ calls[a].pc = "analyze"
  /\ calls' = [calls EXCEPT ![a].pc = "load",
                            ![a].lastLine = IF calls[SessionFiles].exists
                                            THEN calls[SessionFiles].lastLine ELSE 0]
  /\ lastOp' = Op("state-read", 0)
  /\ UNCHANGED <<memories, nextId, memories_vec, clusters, ops>>

\* the transcript is loaded (readOk: the stream did not fail).  Fewer than 5 new
\* messages or a condensed text under 100 characters (short): return; otherwise
\* suspend on isAvailable
AnalyzeLoaded(a, readOk, short) ==
  LET total == calls[SessionFiles].total
      new == newMessages(calls[a].lastLine, total)
  IN /\ calls[a].pc = "load"
     /\ calls' = [calls EXCEPT ![a].total = total,
                               ![a].pc = IF ~readOk THEN "threw"
                                         ELSE IF Cardinality(new) < MIN_NEW_MESSAGES \/ short
                                         THEN "returned" ELSE "ping"]
     /\ lastOp' = Op(IF ~readOk THEN "analyze-threw" ELSE "loaded", 0)
     /\ UNCHANGED <<memories, nextId, memories_vec, clusters, ops>>

\* isAvailable answered: not available returns {saved: 0}; otherwise the condensed
\* new messages are sent to the LLM
AnalyzePinged(a, available) ==
  LET new == newMessages(calls[a].lastLine, calls[a].total)
  IN /\ calls[a].pc = "ping"
     /\ calls' = IF available
                 THEN [calls EXCEPT ![a].pc = "llm",
                                    ![SessionFiles].sent =
                                       [i \in DOMAIN @ |-> IF i \in new THEN @[i] + 1 ELSE @[i]]]
                 ELSE [calls EXCEPT ![a].pc = "returned"]
     /\ lastOp' = Op(IF available THEN "llm-asked" ELSE "unavailable", 0)
     /\ UNCHANGED <<memories, nextId, memories_vec, clusters, ops>>

\* analyzeSession answered.  answered = FALSE: its request failed and it returns
\* {memories: []}.  extracted: the answer holds one memory; db.save(summary,
\* {skipStructurize}) updates a duplicate or inserts the row and suspends on the
\* embedder.  With nothing to await the state file is written in the same step.
AnalyzeAnswered(a, answered, extracted, writeOk) ==
  LET hit == firstDuplicate(memories, TextC, "fact", "backend")
      saving == answered /\ extracted
  IN /\ calls[a].pc = "llm"
     /\ ~answered => ~extracted
     /\ IF saving /\ hit = 0
        THEN /\ memories' = insertRow(memories, nextId, TextC, "fact", "backend",
                                      ExtractedConfidence, "compact-analyzer")
             /\ nextId' = nextId + 1
             /\ calls' = [calls EXCEPT ![a].pc = "embed", ![a].memoryId = nextId]
        ELSE /\ memories' = IF saving THEN [memories EXCEPT ![hit] = dedupUpdate(@)] ELSE memories
             /\ nextId' = nextId
             /\ calls' = [calls EXCEPT ![a].pc = "returned",
                                       ![SessionFiles] = stateWritten(@, calls[a].total, writeOk)]
     /\ lastOp' = [Op(IF answered THEN "analyzed" ELSE "llm-failed", 0) EXCEPT
                     !.failed = IF writeOk THEN 0 ELSE 1]
     /\ UNCHANGED <<memories_vec, clusters, ops>>

\* the embedder answered the save of the extracted memory: vector, tryJoinCluster,
\* then the state file is written
AnalyzeSaved(a, embedding, vecInsertOk, writeOk) ==
  LET c == calls[a]
      joined == IF embedding # NoVec
                THEN tryJoinCluster(memories, clusters, c.memoryId, embedding, "backend",
                                    ExtractedConfidence)
                ELSE [memories |-> memories, clusters |-> clusters, joined |-> 0]
  IN /\ c.pc = "embed"
     /\ memories_vec' = IF embedding # NoVec /\ vecInsertOk
                        THEN [i \in DOMAIN memories_vec \cup {c.memoryId} |->
                                IF i = c.memoryId THEN embedding ELSE memories_vec[i]]
                        ELSE memories_vec
     /\ memories' = joined.memories
     /\ clusters' = joined.clusters
     /\ calls' = [calls EXCEPT ![a].pc = "returned", ![a].memoryId = 0,
                               ![SessionFiles] = stateWritten(@, c.total, writeOk)]
     /\ lastOp' = [Op("analyzed", c.memoryId) EXCEPT !.cluster = joined.joined,
                                                      !.failed = IF writeOk THEN 0 ELSE 1]
     /\ UNCHANGED <<nextId, ops>>

\* CLI mode: .then / .catch of analyzeAndSave end the process
AnalyzerExit ==
  /\ calls[Background].pc \in {"returned", "threw"}
  /\ calls' = [calls EXCEPT ![Background] = [Idle EXCEPT !.runs = calls[Background].runs + 1,
                                                         !.status = IF calls[Background].pc = "threw"
                                                                    THEN 1 ELSE 0]]
  /\ lastOp' = Op("analyzer-exit", 0)
  /\ UNCHANGED <<memories, nextId, memories_vec, clusters, ops>>

AnalyzeStep(a) ==
  \/ AnalyzeRead(a)
  \/ \E readOk, short \in BOOLEAN : AnalyzeLoaded(a, readOk, short)
  \/ \E available \in BOOLEAN : AnalyzePinged(a, available)
  \/ \E answered, extracted, writeOk \in BOOLEAN : AnalyzeAnswered(a, answered, extracted, writeOk)
  \/ \E e \in {SeedVec, NoVec}, ok, writeOk \in BOOLEAN : AnalyzeSaved(a, e, ok, writeOk)

\* ------------------------------------------------------- session-end-hook.js
\* minConfidence of processUnclusteredMemories
MIN_CLUSTER_CONFIDENCE == 60

\* getMatureClusters(): SELECT * FROM clusters WHERE status = 'mature', in id order
getMatureClusters(cls) == SortAsc({c \in DOMAIN cls : cls[c].status = "mature"})

\* the clusters mergeClusterMemories does not return null for
mergeable(mems, cls) ==
  {c \in DOMAIN cls : cls[c].status = "mature" /\ Cardinality(clusterMembers(mems, c)) >= 2}

\* main(): stdin is read to its end and parsed.  "session": session_id and
\* transcript_path are there; "no-transcript": one is missing, or the text is not
\* JSON (sessionData stays {}); "null": JSON.parse gives null, sessionData.session_id
\* throws and main().catch ends the process
SessionMain(input) ==
  /\ calls[SessionHook].pc = "idle"
  /\ calls' = [calls EXCEPT ![SessionHook] =
                 IF input = "session" THEN [@ EXCEPT !.pc = "analyze", !.events = <<"analyze">>]
                 ELSE IF input = "no-transcript" THEN [@ EXCEPT !.pc = "cluster"]
                 ELSE [@ EXCEPT !.pc = "exited", !.status = 0, !.failed = 1]]
  /\ lastOp' = Op("session-end", 0)
  /\ UNCHANGED <<memories, nextId, memories_vec, clusters, ops>>

\* analyzeTranscriptIncremental after analyzeAndSave: the state file is removed; an
\* exception of analyzeAndSave is caught and the file stays
SessionAnalyzed ==
  LET threw == calls[SessionHook].pc = "threw"
  IN /\ calls[SessionHook].pc \in {"returned", "threw"}
     /\ calls' = [calls EXCEPT ![SessionHook].pc = "cluster",
                               ![SessionHook].failed = IF threw THEN 1 ELSE @,
                               ![SessionFiles].exists = IF threw THEN @ ELSE FALSE]
     /\ lastOp' = Op(IF threw THEN "analysis-caught" ELSE "state-removed", 0)
     /\ UNCHANGED <<memories, nextId, memories_vec, clusters, ops>>

\* processUnclusteredMemories: autoCluster({minConfidence: 0.6, hoursBack: 24});
\* threw: its SELECT throws and the catch logs it
SessionCluster(threw) ==
  /\ calls[SessionHook].pc = "cluster"
  /\ \E order \in confidenceOrders(unclusteredIds(memories, MIN_CLUSTER_CONFIDENCE, ""), memories) :
       LET out == autoClustered(order, memories, clusters, memories_vec)
       IN /\ clusters' = IF threw THEN clusters ELSE out.clusters
          /\ memories' = IF threw THEN memories ELSE out.memories
  /\ calls' = [calls EXCEPT ![SessionHook].pc = "merge",
                            ![SessionHook].events = Append(@, "cluster"),
                            ![SessionHook].failed = IF threw THEN 1 ELSE @]
  /\ lastOp' = Op(IF threw THEN "cluster-caught" ELSE "clustered", 0)
  /\ UNCHANGED <<nextId, memories_vec, ops>>

\* mergeMatureClusters up to its loop: rows = the clusters still to merge, members =
\* those of them that were mature with at least 2 members; threw: getMatureClusters
\* throws and the catch logs it
SessionMergeList(threw) ==
  LET list == getMatureClusters(clusters)
  IN /\ calls[SessionHook].pc = "merge"
     /\ calls' = [calls EXCEPT ![SessionHook].pc = IF threw \/ list = <<>> THEN "close"
                                                   ELSE "merge_loop",
                               ![SessionHook].events = Append(@, "merge"),
                               ![SessionHook].rows = IF threw THEN <<>> ELSE list,
                               ![SessionHook].members = mergeable(memories, clusters),
                               ![SessionHook].failed = IF threw THEN 1 ELSE @,
                               ![SessionHook].success = IF threw THEN 0 ELSE 1]
     /\ lastOp' = Op(IF threw THEN "merge-caught" ELSE "mature-listed", 0)
     /\ UNCHANGED <<memories, nextId, memories_vec, clusters, ops>>

\* "await db.mergeClusterMemories(cluster.id)" for the next cluster of the list
SessionMergeCall ==
  /\ calls[SessionHook].pc = "merge_loop"
  /\ calls[SessionHook].rows # <<>>
  /\ lastOp.op # "merge-failed"
  /\ MergeBegin(HookCallee, Head(calls[SessionHook].rows))

\* a faulty variant: the loop ends after its first cluster
SessionMergeNextStops ==
  /\ calls[SessionHook].pc = "merge_loop"
  /\ calls[SessionHook].rows # <<>>
  /\ calls[HookCallee].pc = "idle"
  /\ lastOp.op # "merge-failed"
  /\ Head(calls[SessionHook].rows) \notin mergeable(memories, clusters)
  /\ calls' = [calls EXCEPT ![SessionHook].rows = <<>>, ![SessionHook].pc = "close"]
  /\ lastOp' = Op("merge-returned", 0)
  /\ UNCHANGED <<memories, nextId, memories_vec, clusters, ops>>

\* mergeClusterMemories returned (null, or the cluster is merged now): the loop goes
\* on with the next cluster, and mergeMatureClusters returns after the last one
SessionMergeNext ==
  /\ calls[SessionHook].pc = "merge_loop"
  /\ calls[SessionHook].rows # <<>>
  /\ calls[HookCallee].pc = "idle"
  /\ lastOp.op # "merge-failed"
  /\ Head(calls[SessionHook].rows) \notin mergeable(memories, clusters)
  /\ calls' = [calls EXCEPT ![SessionHook].rows = Tail(@),
                            ![SessionHook].pc = IF Tail(calls[SessionHook].rows) = <<>>
                                                THEN "close" ELSE "merge_loop"]
  /\ lastOp' = Op("merge-returned", 0)
  /\ UNCHANGED <<memories, nextId, memories_vec, clusters, ops>>

\* mergeClusterMemories threw: the catch around the loop logs it, the clusters left
\* in the list are not merged
SessionMergeThrew ==
  /\ calls[SessionHook].pc = "merge_loop"
  /\ lastOp.op = "merge-failed"
  /\ calls' = [calls EXCEPT ![SessionHook].pc = "close", ![SessionHook].rows = <<>>,
                            ![SessionHook].failed = 1, ![SessionHook].success = 0]
  /\ lastOp' = Op("merge-caught", 0)
  /\ UNCHANGED <<memories, nextId, memories_vec, clusters, ops>>

\* closeDb() and process.exit(0); threw: closeDb throws and main().catch exits
SessionClose(threw) ==
  /\ calls[SessionHook].pc = "close"
  /\ calls' = [calls EXCEPT ![SessionHook].pc = "exited", ![SessionHook].status = 0,
                            ![SessionHook].failed = IF threw THEN 1 ELSE @]
  /\ lastOp' = Op("session-exit", 0)
  /\ UNCHANGED <<memories, nextId, memories_vec, clusters, ops>>

\* the steps of the SessionEnd hook and of the calls it awaits
SessionStep ==
  \/ \E input \in {"session", "no-transcript", "null"} : SessionMain(input)
  \/ AnalyzeStep(SessionHook)
  \/ SessionAnalyzed
  \/ \E threw \in BOOLEAN : SessionCluster(threw)
  \/ \E threw \in BOOLEAN : SessionMergeList(threw)
  \/ SessionMergeCall
  \/ \E merged \in BOOLEAN : MergeLLM(HookCallee, merged)
  \/ \E e \in {SeedVec, NoVec}, ok \in BOOLEAN : MergeEmbedded(HookCallee, e, ok)
  \/ \E e \in {SeedVec, NoVec}, ok \in BOOLEAN, n \in 0..1 : MergeEmbeddedFails(HookCallee, e, ok, n)
  \/ SessionMergeNext
  \/ SessionMergeThrew
  \/ \E threw \in BOOLEAN : SessionClose(threw)

\* the hook is scheduled until it exits: stdin ends, every call it awaits settles
\* (the clients have timers), and its own statements are synchronous.  This is
\* WF_vars(SessionStep) with ENABLED <<SessionStep>>_vars written out: some step of
\* the hook is possible in every state in which it has not exited.
SessionFairness ==
  \/ []<>(calls[SessionHook].pc = "exited")
  \/ []<><<SessionStep>>_vars

\* a store with the mature cluster of rows 1..5 and five more rows in no cluster; the
\* transcript has nine messages and no state file
SessionRows ==
  LET r5 == [i \in SeedIds |-> [SeedRows[i] EXCEPT !.cluster_id = 1]]
      r6 == insertRow(r5, 6, TextA, "pattern", "testing", 70, "mcp-tool")
      r7 == insertRow(r6, 7, TextB, "pattern", "testing", 75, "mcp-tool")
      r8 == insertRow(r7, 8, TextC, "pattern", "testing", 85, "mcp-tool")
      r9 == insertRow(r8, 9, TextA, "bug", "testing", 90, "mcp-tool")
  IN insertRow(r9, 10, TextB, "bug", "testing", 65, "mcp-tool")

SessionFrames ==
  [s \in Slots \cup {HookCallee, SessionHook, Background, SessionFiles} |->
     IF s = SessionHook THEN [Idle EXCEPT !.status = -1]
     ELSE IF s = SessionFiles THEN [Idle EXCEPT !.pc = "files", !.total = MaxMessages - 1,
                                                !.sent = [i \in 1..MaxMessages |-> 0]]
     ELSE Idle]

InitSession ==
  /\ memories = SessionRows
  /\ nextId = Len(SessionRows) + 1
  /\ memories_vec = [i \in DOMAIN SessionRows |-> SeedVec]
  /\ clusters = <<SeedCluster>>
  /\ calls = SessionFrames
  /\ ops = 0
  /\ lastOp = NoOp

\* the merges the hook of another session runs on the same store
OtherSessionMerge ==
  \/ \E c \in 1..Len(clusters) : MergeBegin(1, c)
  \/ \E merged \in BOOLEAN : MergeLLM(1, merged)
  \/ \E e \in {SeedVec, NoVec} : MergeEmbedded(1, e, TRUE)

NextSession ==
  \/ SessionStep
  \/ lastOp.op # "merge-failed" /\ OtherSessionMerge

SpecSession == InitSession /\ [][NextSession]_vars /\ SessionFairness

\* the hook and the detached analyzer of the same session; a compaction happens
\* while the session is on, before SessionEnd
NextCompact ==
  \/ SessionStep
  \/ lastOp.op # "merge-failed" /\ calls[SessionHook].pc = "idle" /\ PreCompact(1)
  \/ lastOp.op # "merge-failed" /\ TranscriptGrows
  \/ lastOp.op # "merge-failed" /\ AnalyzeStep(Background)
  \/ lastOp.op # "merge-failed" /\ AnalyzerExit

SpecCompact == InitSession /\ [][NextCompact]_vars

\* sequential runs of the detached analyzer on a growing transcript, from a
\* transcript of four messages, no state file and an empty store
InitAnalyzer ==
  /\ memories = <<>>
  /\ nextId = 1
  /\ memories_vec = <<>>
  /\ clusters = <<>>
  /\ calls = [SessionFrames EXCEPT ![SessionFiles].total = MIN_NEW_MESSAGES - 1]
  /\ ops = 0
  /\ lastOp = NoOp

NextAnalyzer ==
  \/ PreCompact(MaxRuns)
  \/ TranscriptGrows
  \/ AnalyzeStep(Background)
  \/ AnalyzerExit

SpecAnalyzer == InitAnalyzer /\ [][NextAnalyzer]_vars

\* ------------------------------------------------------- memory_save tool
\* the handler of the memory_save tool after "await memoryDb.save(...)": the text
\* "Memory saved (ID: ${result.id}, type, domain, confidence)" with the values of the
\* request, whatever result.action is.  id 0 stands for null.
memorySaveReport(result, type, domain, confidence) ==
  [saved |-> TRUE, id |-> result.id, type |-> type, domain |-> domain, confidence |-> confidence]

\* the life of a cluster: the growing cluster of four Records, saves that join it,
\* merges, autoCluster, and saves after the merge
NextLifecycle ==
  \/ SaveStep({TextA, TextC}, {"fact"}, {"backend"}, {SeedVec}, CLUSTER_MATURITY_COUNT + MaxRecords)
  \/ MergeStep(CLUSTER_MATURITY_COUNT + MaxRecords)
  \/ AutoCluster(50, "")

SpecLifecycle == InitJoin /\ [][NextLifecycle]_vars

\* calls of calcTimeDecay for the types of the table and one that is not in it
DecayTypes == DOMAIN TIME_DECAY_CONFIG \cup {"insight"}
Today == MaxAgeDays + 1

NextDecay ==
  \E createdAt \in 0..Today, memoryType \in DecayTypes :
    /\ decayInput(createdAt, Today, memoryType)
    /\ CalcTimeDecay(createdAt, Today, memoryType)

SpecDecay == Init /\ [][NextDecay]_vars

\* requests of the two clients, each with the events its socket and timer deliver
NextRequest ==
  \/ \E s \in Slots, client \in Clients : RequestBegin(s, client)
  \/ \E s \in Slots : RequestTimer(s)
  \/ \E s \in Slots, chunk \in Chunks : RequestData(s, chunk)
  \/ \E s \in Slots : RequestError(s)
  \/ \E s \in Slots : RequestClose(s)

SpecRequest == Init /\ [][NextRequest]_vars

\* The empty store with an embedder that is a function of its input: saves into
\* two domains, deletes, and rebuilds of the vector table.
RebuildDomains == {"backend", "general"}

\* the input a suspended save() gave the embedder
embeddingTextOf(c) == buildEmbeddingText(c.content, c.domain)

NextRebuild ==
  \/ \E s \in Slots, t \in {TextA, TextC}, d \in RebuildDomains, c \in AnalyzerConfidences :
       roomFor(MaxRecords) /\ SavePreStructured(s, t, "pattern", d, c, "compact-analyzer")
  \/ \E s \in Slots, t \in {TextA, TextC}, d \in RebuildDomains :
       SaveDuplicate(s, t, "pattern", d)
  \/ \E s \in Slots, ok \in BOOLEAN :
       calls[s].pc = "embed" /\ SaveEmbedded(s, embed(embeddingTextOf(calls[s])), ok)
  \/ \E s \in Slots : calls[s].pc = "embed" /\ SaveEmbedded(s, NoVec, TRUE)
  \/ \E id \in DOMAIN memories : Delete(id)
  \/ \E s \in Slots : RebuildBegin(s)
  \/ \E s \in Slots, ok \in BOOLEAN :
       /\ calls[s].pc = "rebuild"
       /\ LET row == Head(calls[s].rows)
          IN \E e \in {embed(buildEmbeddingText(row.content, row.domain)), NoVec} :
               RebuildEmbedded(s, e, ok)

SpecRebuild == Init /\ [][NextRebuild]_vars


\* ------------------------------------------------------------------- claims

activeClusters == {c \in 1..Len(clusters) : clusters[c].status \in {"growing", "mature"}}

\* C1: every Record has 0.3 <= confidence <= 0.9 in every reachable state, after
\* any sequence of Save, dedup update, Validate, auto_boost, Mark-used and merge.
C1_ConfidenceInRange ==
  \A id \in DOMAIN memories : memories[id].confidence >= 30 /\ memories[id].confidence <= 90

\* C2: for every growing or mature cluster, member_count equals the number of
\* Records whose cluster_id is the cluster.
C2_MemberCountMatches ==
  \A c \in activeClusters :
    clusters[c].member_count = Cardinality({i \in DOMAIN memories : memories[i].cluster_id = c})

\* C3: for every growing or mature cluster that has members, avg_confidence is the
\* arithmetic mean of the members' current confidences.
C3_AvgConfidenceIsMean ==
  \A c \in activeClusters :
    LET M == {i \in DOMAIN memories : memories[i].cluster_id = c}
    IN M # {} =>
         clusters[c].avg_confidence.n * Cardinality(M)
           = clusters[c].avg_confidence.d * SumOver(M, [i \in M |-> memories[i].confidence])

\* the newest row of the (type, domain) bucket of row id
newestOfBucket(id) ==
  \A j \in DOMAIN memories :
    (memories[j].type = memories[id].type /\ memories[j].domain = memories[id].domain) => j <= id

\* a step that starts save(content, {type, domain}) in one of the ways save can start
startsSave(content, type, domain) ==
  \E s \in Slots :
    \/ SaveDuplicate(s, content, type, domain)
    \/ \E c \in ToolConfidences : SaveBegin(s, content, type, domain, c, "mcp-tool")
    \/ \E c \in AnalyzerConfidences : SavePreStructured(s, content, type, domain, c, "compact-analyzer")

\* C4: when merge_cluster(c) has completed and returned a result, no Record has
\* cluster_id = c, exactly one Record with source cluster-merge exists, every
\* Record that was a member at the start is deleted, and c.status = merged.
C4_MergePostcondition ==
  lastOp.op = "merged" =>
    /\ \A i \in DOMAIN memories : memories[i].cluster_id # lastOp.cluster
    /\ Cardinality({i \in DOMAIN memories : memories[i].source = "cluster-merge"}) = 1
    /\ lastOp.id \in DOMAIN memories /\ memories[lastOp.id].source = "cluster-merge"
    /\ lastOp.members \cap DOMAIN memories = {}
    /\ clusters[lastOp.cluster].status = "merged"

\* C5: no Record references a cluster whose status is merged, in any reachable
\* state, a Save joining a cluster during the suspension of its merge included.
C5_NoMemberOfMergedCluster ==
  \A i \in DOMAIN memories :
    memories[i].cluster_id # 0 => clusters[memories[i].cluster_id].status # "merged"

\* C9: for every k >= 0 and every store state, search(q, k, filters) returns at
\* most k results, each scored 0.7 * vec_sim + 0.3 * min(bm25 / 10, 1), and the
\* scores of the returned list are non-increasing.
C9_SearchBounded ==
  lastOp.op = "search" =>
    /\ Len(lastOp.results) <= lastOp.limit
    /\ \A p \in 1..Len(lastOp.results) :
         LET r == lastOp.results[p]
         IN r.combinedScore
              = 7 * r.vectorSimilarity + 3 * (IF r.bm25Score > 100 THEN 100 ELSE r.bm25Score)
    /\ \A p, q \in 1..Len(lastOp.results) :
         p < q => lastOp.results[p].combinedScore >= lastOp.results[q].combinedScore

\* a search that had more candidates than k and returned k of them, best first
C9_Witness ==
  /\ lastOp.op = "search"
  /\ lastOp.candidates > lastOp.limit
  /\ Len(lastOp.results) = lastOp.limit
  /\ lastOp.limit >= 2
  /\ lastOp.results[1].combinedScore > lastOp.results[2].combinedScore
  /\ lastOp.results[1].id > lastOp.results[2].id
  /\ lastOp.results[1].bm25Score > 100
  /\ lastOp.results[1].vectorSimilarity > 0

\* C10: every record returned by search and by the memory_search tool satisfies
\* the caller's filters (min_confidence, non-null type, non-null domain), through
\* the embedding service as well as inline.
C10_ResultsSatisfyFilters ==
  lastOp.op = "search" =>
    \A p \in 1..Len(lastOp.results) :
      LET r == lastOp.results[p]
      IN /\ r.confidence >= lastOp.asked.minConfidence
         /\ (lastOp.asked.type = "" \/ r.type = lastOp.asked.type)
         /\ (lastOp.asked.domain = "" \/ r.domain = lastOp.asked.domain)

\* C11: Save is observably atomic: while a Save is suspended on the embedder, a
\* reader sees either no Record of that Save or a Record that already has its
\* full-text entry and its vector entry.  (The full-text entry is written by the
\* AFTER INSERT trigger, in the statement that inserts the Record.)
C11_SaveObservablyAtomic ==
  \A s \in Slots :
    (calls[s].pc = "embed" /\ calls[s].memoryId \in DOMAIN memories)
      => calls[s].memoryId \in DOMAIN memories_vec

\* C12: merge_cluster, try_join_cluster and auto_cluster are all-or-nothing: when a
\* store statement fails partway, the store is as it was before the call.  Stated
\* by what that requires of the rows the failed call itself wrote: the aggregate
\* Record of a failed merge is gone, and the cluster_id a failed join set is null.
C12_AllOrNothing ==
  /\ lastOp.op = "merge-failed" => lastOp.id \notin DOMAIN memories
  /\ lastOp.op = "join-failed" =>
       (lastOp.id \in DOMAIN memories => memories[lastOp.id].cluster_id = 0)

\* C13: when the vector insert of a Save fails after the Record row was inserted,
\* the Record insert is rolled back and the outcome is a failure, not {created, id}.
C13_VectorFailureRollsBack ==
  lastOp.vec_failed => (lastOp.op # "created" /\ lastOp.id \notin DOMAIN memories)

\* C14: a vector entry keyed n and a full-text entry keyed n exist if and only if a
\* Record with id n exists.  (Full-text entries follow the Records through the
\* triggers, so the keys of the full-text index are DOMAIN memories.)
C14_IndexesMatchRecords ==
  DOMAIN memories_vec = DOMAIN memories

\* C15: when merge_cluster deletes the members, the aggregate Record and its vector
\* entry are both already inserted, on the LLM path and on the fallback path alike.
C15_AggregateBeforeDelete ==
  lastOp.op = "merged" =>
    (lastOp.id \in DOMAIN memories /\ lastOp.id \in DOMAIN memories_vec)

\* C16: every cluster with status mature has member_count >= maturityCount and
\* avg_confidence >= maturityConfidence, also after further joins and deletes.
C16_MatureClustersQualify ==
  \A c \in 1..Len(clusters) :
    clusters[c].status = "mature" =>
      /\ clusters[c].member_count >= CLUSTER_MATURITY_COUNT
      /\ clusters[c].avg_confidence.n >= CLUSTER_MATURITY_CONFIDENCE * clusters[c].avg_confidence.d

\* C17: online join creates a cluster when no host exists: after four mutually
\* similar Records were saved into a domain without cluster, and no auto_cluster
\* ran, one cluster exists with member_count 4 and status growing; after a fifth
\* similar Save with confidence >= 0.65 that cluster is mature.
C17_OnlineJoinCreatesCluster ==
  LET n == Cardinality(DOMAIN memories)
      settled == /\ \A s \in Slots : calls[s].pc = "idle"
                 /\ DOMAIN memories_vec = DOMAIN memories
                 /\ \A i, j \in DOMAIN memories :
                      /\ memories[i].domain = memories[j].domain
                      /\ cosineAtLeast(memories_vec[i], memories_vec[j], CLUSTER_SIMILARITY_THRESHOLD)
  IN settled =>
       /\ n = 4 => /\ Len(clusters) = 1
                   /\ clusters[1].member_count = 4
                   /\ clusters[1].status = "growing"
       /\ (n = 5 /\ lastOp.op = "created" /\ memories[lastOp.id].confidence >= CLUSTER_MATURITY_CONFIDENCE)
            => (Len(clusters) = 1 /\ clusters[1].status = "mature")

\* C18: every non-null cluster_id of a Record references an existing cluster whose
\* domain equals the Record's domain, after any sequence of Save (online join),
\* auto_cluster and merge_cluster.
C18_ClusterOfSameDomain ==
  \A i \in DOMAIN memories :
    memories[i].cluster_id # 0 =>
      /\ memories[i].cluster_id \in 1..Len(clusters)
      /\ clusters[memories[i].cluster_id].domain = memories[i].domain

\* a Save joined a cluster of its domain although an earlier, equally similar
\* cluster of another domain was open
C18_Witness ==
  /\ lastOp.op = "created" /\ lastOp.cluster # 0
  /\ lastOp.id \in DOMAIN memories
  /\ memories[lastOp.id].cluster_id = lastOp.cluster
  /\ \E c \in 1..Len(clusters) :
       /\ c < lastOp.cluster
       /\ clusters[c].status \in {"growing", "mature"}
       /\ clusters[c].domain # memories[lastOp.id].domain
       /\ clusters[c].centroid[2] * clusters[lastOp.cluster].centroid[1]
            = clusters[c].centroid[1] * clusters[lastOp.cluster].centroid[2]

\* C19: when the embedder fails during a Save of non-duplicate, non-rejected text,
\* Save keeps the inserted Record and returns {created, id}, writes no vector entry
\* and changes no cluster and no cluster_id; the Record is returned by lexical
\* search and never by vector search.
C19_EmbedderFailureStep ==
  \A s \in Slots :
    (calls[s].pc = "embed" /\ \E ok \in BOOLEAN : SaveEmbedded(s, NoVec, ok))
    => /\ lastOp'.op = "created" /\ lastOp'.id = calls[s].memoryId /\ lastOp'.cluster = 0
       /\ memories' = memories
       /\ memories_vec' = memories_vec
       /\ calls[s].memoryId \notin DOMAIN memories_vec'
       /\ clusters' = clusters
       /\ calls[s].memoryId \in DOMAIN memories' => memories'[calls[s].memoryId].cluster_id = 0

\* a Record without vector entry is found by its own words, with no vector score
\* (the limit is the number of Records, so that the slices drop nothing)
C19_LexicalOnly ==
  \A n \in DOMAIN memories \ DOMAIN memories_vec :
    LET q == memories[n].content
        k == Cardinality(DOMAIN memories)
    IN \A b \in Bm25Scores :
         LET bm == [i \in ftsMatches(memories, q) |-> b]
             e == SeedVec
             fts == quickSearch(memories, q, k * 2, bm)
             out == searchResults(memories, memories_vec, fts, e, k, NoOptions).results
         IN /\ \E p \in 1..Len(fts) : fts[p].id = n
            /\ n \notin SeqRange(vecResults(memories_vec, e, k * 2))
            /\ \E p \in 1..Len(out) : out[p].id = n /\ out[p].vectorSimilarity = 0

C19_EmbedderFailure == [][C19_EmbedderFailureStep]_vars /\ []C19_LexicalOnly

C19_Witness ==
  /\ lastOp.op = "created" /\ ~lastOp.vec_failed
  /\ lastOp.id \in DOMAIN memories \ DOMAIN memories_vec
  /\ memories[lastOp.id].cluster_id = 0
  /\ DOMAIN memories_vec # {}
  /\ \E c \in 1..Len(clusters) :
       /\ clusters[c].status \in {"growing", "mature"}
       /\ clusters[c].domain = memories[lastOp.id].domain

\* C20: when the structurer rejects the text, Save returns {rejected, reason} and
\* leaves the store unchanged: no Record, no full-text entry, no vector entry, no
\* cluster change.
C20_RejectStep ==
  \A s \in Slots :
    (calls[s].pc = "structurize" /\ SaveStructurized(s, TRUE))
    => /\ lastOp'.op = "rejected"
       /\ calls'[s].pc = "idle"
       /\ UNCHANGED <<memories, nextId, memories_vec, clusters>>

C20_RejectLeavesStore == [][C20_RejectStep]_vars

C20_Witness ==
  /\ lastOp.op = "rejected"
  /\ DOMAIN memories # {}
  /\ \A s \in Slots : calls[s].pc = "idle"

\* C21: after rebuild_all_embeddings completed with every embed call succeeding
\* (and every vector INSERT, and no Save in flight), the vector index holds exactly
\* one entry per existing Record, equal to embed(build_embedding_input(text,
\* domain)), the entry Save would have written.
C21_RebuildReproducesSave ==
  (/\ lastOp.op = "rebuilt" /\ lastOp.failed = 0
   /\ \A s \in Slots : calls[s].pc = "idle")
  => /\ DOMAIN memories_vec = DOMAIN memories
     /\ \A i \in DOMAIN memories \cap DOMAIN memories_vec :
          memories_vec[i] = embed(buildEmbeddingText(memories[i].content, memories[i].domain))

\* the texts between the separators of a fallback aggregate
RECURSIVE segments(_, _)
segments(content, acc) ==
  IF content = <<>> THEN <<acc>>
  ELSE IF Head(content) = <<"---", "l">> THEN <<acc>> \o segments(Tail(content), <<>>)
  ELSE segments(Tail(content), Append(acc, Head(content)))

\* C22: the aggregate Record created by merge_cluster has source cluster-merge, the
\* cluster's domain, the most frequent type among the members and a null
\* cluster_id; its confidence is 0.9 when the LLM merged, and 0.85 with the member
\* texts joined by "\n---\n" as content when it did not; the members are deleted
\* and the cluster is marked merged in both cases.
C22_ReadStep ==
  \A s \in Slots, c \in 1..Len(clusters) :
    MergeBegin(s, c) =>
      LET M == {i \in DOMAIN memories : memories[i].cluster_id = c}
          count(t) == Cardinality({i \in M : memories[i].type = t})
          parts == segments(calls'[s].content, <<>>)
      IN /\ calls'[s].members = M
         /\ count(calls'[s].mainType) > 0
         /\ \A t \in Types : count(calls'[s].mainType) >= count(t)
         /\ Len(parts) = Cardinality(M)
         /\ \A i \in M :
              Cardinality({p \in 1..Len(parts) : parts[p] = memories[i].content})
                = Cardinality({j \in M : memories[j].content = memories[i].content})

C22_InsertStep ==
  \A s \in Slots, merged \in BOOLEAN :
    (calls[s].pc = "merge_llm" /\ MergeLLM(s, merged)) =>
      LET c == calls[s]
          a == memories'[nextId]
      IN /\ nextId \in DOMAIN memories' /\ nextId \notin DOMAIN memories
         /\ a.source = "cluster-merge"
         /\ a.domain = clusters[c.clusterId].domain
         /\ a.type = c.mainType
         /\ a.cluster_id = 0
         /\ a.confidence = (IF merged THEN 90 ELSE 85)
         /\ ~merged => /\ a.content = c.content
                       /\ c.members \cap DOMAIN memories' = {}
                       /\ clusters'[c.clusterId].status = "merged"
                       /\ lastOp'.op = "merged" /\ lastOp'.id = nextId

C22_FinishStep ==
  \A s \in Slots :
    (calls[s].pc = "merge_embed"
       /\ \E e \in Vecs \cup {NoVec}, ok \in BOOLEAN : MergeEmbedded(s, e, ok)) =>
      /\ lastOp'.op = "merged"
      /\ calls[s].members \cap DOMAIN memories' = {}
      /\ clusters'[calls[s].clusterId].status = "merged"
      /\ lastOp'.id = calls[s].memoryId

C22_AggregateRecord == [][C22_ReadStep /\ C22_InsertStep /\ C22_FinishStep]_vars

\* a fallback merge of a cluster whose two types were equally frequent has returned
C22_Witness ==
  /\ lastOp.op = "merged"
  /\ Cardinality(lastOp.members) = 4
  /\ lastOp.id \in DOMAIN memories
  /\ memories[lastOp.id].confidence = 85
  /\ Len(segments(memories[lastOp.id].content, <<>>)) = 4
  /\ memories[lastOp.id].type = "bug"
  /\ \E i \in DOMAIN memories : memories[i].confidence = 90 /\ memories[i].source = "cluster-merge"

hookFrames == {s \in Slots : calls[s].pc \in {"hook_search", "hook_exited"}}

\* w ends with the text t
endsWith(w, t) == Len(w) >= Len(t) /\ SubSeq(w, Len(w) - Len(t) + 1, Len(w)) = t

requestFrames == {s \in Slots : calls[s].pc = "request"}

\* an event that leaves the request pending: sendRequest has no close handler and
\* ignores blank lines, request waits for the newline that ends the response
leavesPending(c, j) ==
  LET e == c.events[j]
  IN \/ e.name = "close" /\ c.client = "embedding"
     \/ /\ e.name = "data"
        /\ IF c.client = "embedding" THEN \A p \in 1..Len(e.chunk) : e.chunk[p] = "\n"
           ELSE e.chunk[Len(e.chunk)] # "\n"

\* C24: every request of the embedding client and of the LLM client settles
\* exactly once, with the server's response or a failure, no later than its
\* deadline (while it is pending its timer is armed); the first of the timer,
\* data, error and close events that settles decides the outcome and later events
\* have no effect; on deadline expiry the outcome is a timeout failure.
C24_SettledState ==
  \A s \in requestFrames :
    LET c == calls[s]
    IN /\ Len(c.outcomes) <= 1
       /\ c.outcomes = <<>> => (c.timer = "armed" /\ \A j \in 1..Len(c.events) : leavesPending(c, j))
       /\ c.outcomes # <<>> =>
            LET o == c.outcomes[1]
            IN /\ c.timer # "armed"
               /\ \/ o.type = "resolve" /\ o.value = "response"
                     /\ \E j \in 1..Len(c.buffer) : c.buffer[j] = "A"
                  \/ o.type = "reject"
                     /\ o.value \in {"timeout", "server-error", "invalid-response",
                                      "socket-error", "closed"}
               /\ \E k \in 1..Len(c.events) :
                    /\ c.events[k].name = o.by
                    /\ ~leavesPending(c, k)
                    /\ \A j \in 1..(k - 1) : leavesPending(c, j)
               /\ c.timer = "fired" => (o.type = "reject" /\ o.value = "timeout")

C24_SettledStep ==
  \A s \in requestFrames :
    (calls[s].outcomes # <<>> /\ calls'[s].events # <<>>) => calls'[s].outcomes = calls[s].outcomes

nearDuplicates(content, type, domain) ==
  LET bucket == {i \in DOMAIN memories : memories[i].type = type /\ memories[i].domain = domain}
      recent == {i \in bucket : Cardinality({j \in bucket : j > i}) < 10}
      words(t) == {t[k][1] : k \in 1..Len(t)}
  IN {i \in recent :
        100 * Cardinality(words(content) \cap words(memories[i].content))
          >= 95 * Cardinality(words(content) \cup words(memories[i].content))}

\* C26: when the text has Jaccard similarity >= 0.95 with one of the 10 most recent
\* Records of its (type, domain), Save returns {updated, id, similarity} without
\* calling the structurer or the embedder, inserts no Record and no vector, changes
\* no cluster, and changes only that Record: access_count + 1 and confidence
\* min(0.9, confidence + 0.05).
C26_DuplicateStep ==
  \A content \in DedupTexts, type \in Types, domain \in Domains :
    (nearDuplicates(content, type, domain) # {} /\ startsSave(content, type, domain))
    => /\ lastOp'.op = "updated"
       /\ lastOp'.id \in nearDuplicates(content, type, domain)
       /\ lastOp'.similarity.n * 100 >= 95 * lastOp'.similarity.d
       /\ calls' = calls
       /\ nextId' = nextId
       /\ memories_vec' = memories_vec
       /\ clusters' = clusters
       /\ DOMAIN memories' = DOMAIN memories
       /\ \A i \in DOMAIN memories :
            IF i = lastOp'.id
            THEN LET raised == memories[i].confidence + 5
                 IN memories'[i] = [memories[i] EXCEPT
                                      !.access_count = memories[i].access_count + 1,
                                      !.confidence = IF raised > 90 THEN 90 ELSE raised]
            ELSE memories'[i] = memories[i]

C27_JoinStep ==
  \A s \in Slots, e \in Vecs, ok \in BOOLEAN :
    (calls[s].pc = "embed" /\ SaveEmbedded(s, e, ok)) =>
      LET sim(c) == Dot(e, clusters[c].centroid) * Dot(e, clusters[c].centroid)
          norm(c) == Dot(clusters[c].centroid, clusters[c].centroid)
          \* cosine(e, a) >= cosine(e, b), both positive
          atLeast(a, b) == sim(a) * norm(b) >= sim(b) * norm(a)
          hosts == {c \in 1..Len(clusters) :
                      /\ clusters[c].domain = calls[s].domain
                      /\ clusters[c].status \in {"growing", "mature"}
                      /\ Dot(e, clusters[c].centroid) > 0
                      /\ 10000 * sim(c) >= 70 * 70 * 25 * norm(c)}
          chosen == lastOp'.cluster
      IN IF hosts = {}
         THEN chosen = 0 /\ clusters' = clusters /\ memories' = memories
         ELSE /\ chosen \in hosts
              /\ \A c \in hosts : atLeast(chosen, c)
              /\ \A c \in hosts : atLeast(c, chosen) => chosen <= c

C27_BestClusterSmallestId == [][C27_JoinStep]_vars

\* C28: a successful online join changes exactly the Record's cluster_id (to the
\* chosen cluster), the cluster's member_count (+1), its avg_confidence (to
\* (old_avg * old_count + conf) / (old_count + 1)) and its status, which becomes
\* mature if and only if it was growing and the new member_count >= M and the new
\* avg_confidence >= C; every other attribute of the cluster, every other cluster
\* and every other Record is unchanged.
C28_JoinStep ==
  \A s \in Slots, e \in Vecs, ok \in BOOLEAN :
    (calls[s].pc = "embed" /\ SaveEmbedded(s, e, ok) /\ lastOp'.cluster # 0) =>
      LET k == lastOp'.cluster
          id == calls[s].memoryId
          conf == calls[s].confidence
          old == clusters[k]
          new == clusters'[k]
          newCount == old.member_count + 1
          promoted == /\ old.status = "growing"
                      /\ newCount >= CLUSTER_MATURITY_COUNT
                      /\ new.avg_confidence.n >= CLUSTER_MATURITY_CONFIDENCE * new.avg_confidence.d
      IN /\ DOMAIN memories' = DOMAIN memories
         /\ \A i \in DOMAIN memories :
              memories'[i] = IF i = id THEN [memories[i] EXCEPT !.cluster_id = k] ELSE memories[i]
         /\ Len(clusters') = Len(clusters)
         /\ \A c \in 1..Len(clusters) : c # k => clusters'[c] = clusters[c]
         /\ new.member_count = newCount
         /\ new.avg_confidence.n * old.avg_confidence.d * newCount
              = (old.avg_confidence.n * old.member_count + conf * old.avg_confidence.d)
                  * new.avg_confidence.d
         /\ new.status = IF promoted THEN "mature" ELSE old.status
         /\ new = [old EXCEPT !.member_count = new.member_count,
                              !.avg_confidence = new.avg_confidence,
                              !.status = new.status]

C29_JoinOnlyWithVector ==
  (/\ lastOp.op = "created"
   /\ lastOp.cluster # 0
   /\ lastOp.id \in DOMAIN memories
   /\ memories[lastOp.id].cluster_id = lastOp.cluster)
    => lastOp.id \in DOMAIN memories_vec

\* C30: full_text_search merges the hits of its paths by id keeping the maximum
\* score: a record matched both by the identifier phrase path (score |bm25|)
\* and by the CJK n-gram path (score matched n-grams * 0.5) is returned once, with
\* the larger of the two scores.
C30_QuickSearchStep ==
  \A q \in LexicalQueries, k \in 0..MaxK :
    \A bm \in [ftsMatches(memories, q) -> Bm25Scores] :
      QuickSearch(q, k, bm) =>
        LET out == lastOp'.results
            both == SeqRange(ftsResultRows(memories, q, k, bm)) \cap SeqRange(likeResultRows(memories, q, k))
            ngramScore(i) == 5 * matchCount(memories[i].content, filteredNgrams(q))
        IN /\ \A p1, p2 \in 1..Len(out) : out[p1].id = out[p2].id => p1 = p2
           /\ \A p \in 1..Len(out) :
                out[p].id \in both =>
                  out[p].bm25Score = IF bm[out[p].id] >= ngramScore(out[p].id)
                                     THEN bm[out[p].id] ELSE ngramScore(out[p].id)

C30_MergeKeepsMaximum == [][C30_QuickSearchStep]_vars


\* C31: auto_cluster assigns a cluster_id only to Records that were unclustered,
\* have confidence >= min_confidence and have a vector entry, and never changes
\* the cluster_id of a clustered Record; every cluster it creates has at least
\* min_size members, all of the cluster's domain, a member_count equal to the
\* number of Records assigned to it, status mature iff size >= M and mean
\* confidence >= C (else growing), and every member is within the threshold of
\* the cluster's seed, a member of highest confidence; no Record is assigned to
\* two clusters.
C31_AutoClusterStep ==
  \A m \in MinConfidences, d \in {"", "backend"} :
    (Len(clusters') > Len(clusters) /\ AutoCluster(m, d)) =>
      LET created == (Len(clusters) + 1)..Len(clusters')
          assigned == {i \in DOMAIN memories : memories'[i].cluster_id # memories[i].cluster_id}
          membersOf(k) == {i \in DOMAIN memories' : memories'[i].cluster_id = k}
          total(k) == SumOver(membersOf(k), [i \in membersOf(k) |-> memories[i].confidence])
      IN /\ DOMAIN memories' = DOMAIN memories
         /\ \A c \in 1..Len(clusters) : clusters'[c] = clusters[c]
         /\ \A i \in DOMAIN memories :
              memories'[i] = [memories[i] EXCEPT !.cluster_id = memories'[i].cluster_id]
         /\ \A i \in assigned :
              /\ memories[i].cluster_id = 0
              /\ memories[i].confidence >= m
              /\ d = "" \/ memories[i].domain = d
              /\ i \in DOMAIN memories_vec
              /\ memories'[i].cluster_id \in created
         /\ \A k \in created :
              /\ membersOf(k) \subseteq assigned
              /\ Cardinality(membersOf(k)) >= MIN_CLUSTER_SIZE
              /\ \A i \in membersOf(k) : memories[i].domain = clusters'[k].domain
              /\ clusters'[k].member_count = Cardinality(membersOf(k))
              /\ clusters'[k].status =
                   IF /\ Cardinality(membersOf(k)) >= CLUSTER_MATURITY_COUNT
                      /\ total(k) >= CLUSTER_MATURITY_CONFIDENCE * Cardinality(membersOf(k))
                   THEN "mature" ELSE "growing"
              /\ \E seed \in membersOf(k) :
                   /\ \A i \in membersOf(k) : memories[seed].confidence >= memories[i].confidence
                   /\ \A i \in membersOf(k) :
                        cosineSimilarity(memories_vec[seed], memories_vec[i])
                          >= CLUSTER_SIMILARITY_THRESHOLD

C31_AutoClusterAssigns == [][C31_AutoClusterStep]_vars

\* autoCluster with minConfidence 0.5 put the five unclustered Records, the one of
\* confidence 0.50 among them, into one cluster that it created as mature
C31_Witness ==
  /\ Len(clusters) >= 2
  /\ clusters[2].status = "mature"
  /\ clusters[2].member_count = CLUSTER_MATURITY_COUNT
  /\ \A i \in 3..7 : i \in DOMAIN memories /\ memories[i].cluster_id = 2


\* C32: merge_cluster on a cluster id that does not exist, whose status is not
\* mature, or that has fewer than 2 member Records returns null and changes
\* nothing in the store: a call goes on to the LLM only for an existing mature
\* cluster with at least 2 members, and a call on an already merged cluster
\* creates no second aggregate Record.
C32_MergeCallStep ==
  LET eligible(c) == /\ c \in 1..Len(clusters)
                     /\ clusters[c].status = "mature"
                     /\ Cardinality({i \in DOMAIN memories : memories[i].cluster_id = c}) >= 2
  IN /\ \A s \in Slots :
          (calls[s].pc = "idle" /\ calls'[s].pc = "merge_llm") => eligible(calls'[s].clusterId)
     /\ lastOp'.op = "merge-null" =>
          /\ ~eligible(lastOp'.cluster)
          /\ UNCHANGED <<memories, memories_vec, clusters, nextId, calls>>

C32_IneligibleMergeIsNull == [][C32_MergeCallStep]_vars

\* a second call for a cluster that is already merged returned null, and the store
\* holds the one aggregate Record of the first call
C32_Witness ==
  /\ lastOp.op = "merge-null"
  /\ lastOp.cluster \in 1..Len(clusters)
  /\ clusters[lastOp.cluster].status = "merged"
  /\ Cardinality({i \in DOMAIN memories : memories[i].source = "cluster-merge"}) = 1

\* C33: the SessionEnd hook runs transcript analysis, then auto_cluster, then the
\* merging of mature clusters, in that order, and a step that throws does not keep
\* the later ones from running; when the merge step finishes without a store error,
\* every cluster that was mature with at least 2 members when the step started (those
\* the preceding auto_cluster created as mature included) has status merged; and the
\* hook always terminates, with exit status 0.
C33_HookState ==
  LET hook == calls[SessionHook]
      steps == <<"analyze", "cluster", "merge">>
      isPrefix(p, q) == Len(p) <= Len(q) /\ SubSeq(q, 1, Len(p)) = p
  IN /\ isPrefix(hook.events, steps) \/ isPrefix(hook.events, Tail(steps))
     /\ hook.pc \in {"close", "exited"} /\ hook.events # <<>> =>
          hook.events \in {steps, Tail(steps)}
     /\ hook.pc \in {"close", "exited"} /\ hook.success = 1 =>
          \A c \in hook.members : clusters[c].status = "merged"
     /\ hook.pc = "exited" <=> hook.status # -1
     /\ hook.status \in {-1, 0}

C33_SessionEndHook ==
  /\ []C33_HookState
  /\ <>(calls[SessionHook].pc = "exited" /\ calls[SessionHook].status = 0)

\* the hook exited with status 0 after its analysis threw: auto_cluster created
\* cluster 2 as mature, and the merge step merged it and the seeded cluster
C33_Witness ==
  /\ calls[SessionHook].pc = "exited"
  /\ calls[SessionHook].status = 0
  /\ calls[SessionHook].events = <<"analyze", "cluster", "merge">>
  /\ calls[SessionHook].failed = 1
  /\ calls[SessionHook].success = 1
  /\ calls[SessionHook].members = {1, 2}
  /\ Len(clusters) = 2
  /\ \A c \in {1, 2} : clusters[c].status = "merged"

\* C34: across sequential analyzeAndSave runs for one session every transcript
\* message is sent to the LLM at most once: a run sends only the messages after the
\* stored lastLine and then stores lastLine = the number of messages it loaded; a run
\* that returns early (fewer than 5 new messages, condensed text too short, LLM
\* unavailable) or whose LLM analysis call failed leaves the state file as it was.
C34_AnalyzeStep ==
  LET files == calls[SessionFiles]
      run == calls[Background]
  IN /\ \A i \in DOMAIN files.sent :
          /\ files.sent[i]' <= 1
          /\ files.sent[i]' > files.sent[i] =>
               i > (IF files.exists THEN files.lastLine ELSE 0)
     /\ (run.pc \in {"llm", "embed"} /\ lastOp'.op = "analyzed" /\ calls'[Background].pc = "returned"
           /\ files' # files) =>
          files.exists' /\ files.lastLine' = run.total
     /\ (calls'[Background].pc = "returned" /\ run.pc # "returned"
           /\ lastOp'.op \in {"loaded", "unavailable", "llm-failed"}) =>
          files.lastLine' = files.lastLine /\ files.exists' = files.exists

C34_EachMessageOnce == [][C34_AnalyzeStep]_vars

\* C35: a client treats a response as received only when a complete line, ended
\* by its newline, has arrived: a request that a data event settles was settled on
\* a buffer whose last line is terminated, with the outcome of that whole line, so
\* delivery in several chunks gives the outcome of delivery in one chunk.
C35_CompleteLine ==
  \A s \in requestFrames :
    LET c == calls[s]
        whole == SelectSeq(c.buffer, LAMBDA t : t # "\n")
    IN (c.outcomes # <<>> /\ c.outcomes[1].by = "data") =>
         /\ c.buffer # <<>> /\ c.buffer[Len(c.buffer)] = "\n"
         /\ c.outcomes[1] = settlement(whole, "data")

\* C36: the memory_save tool reports a memory as saved with an ID only when a
\* Record with that id exists after the call with the reported type, domain and
\* confidence: a Save the structurer rejected (id null) and a Save that took the
\* dedup path are not reported as saved with the requested values.
C36_SaveStep ==
  LET holds(report) ==
        report.saved =>
          /\ report.id \in DOMAIN memories'
          /\ memories'[report.id].type = report.type
          /\ memories'[report.id].domain = report.domain
          /\ memories'[report.id].confidence = report.confidence
  IN /\ \A s \in Slots :
          (/\ calls[s].pc \in {"structurize", "embed"} /\ calls[s].source = "mcp-tool"
           /\ calls'[s].pc = "idle" /\ lastOp'.op \in {"created", "rejected"}) =>
            holds(memorySaveReport([id |-> lastOp'.id, action |-> lastOp'.op],
                                   calls[s].type, calls[s].domain, calls[s].confidence))
     /\ lastOp'.op = "updated" =>
          \A confidence \in ToolConfidences :
            holds(memorySaveReport([id |-> lastOp'.id, action |-> "updated"],
                                   memories[lastOp'.id].type, memories[lastOp'.id].domain,
                                   confidence))

C36_ReportedSaveExists == [][C36_SaveStep]_vars

\* C37: a cluster's status only moves growing -> mature -> merged (never from
\* growing to merged in one step, never back, merged is final), no cluster row is
\* ever deleted, and tryJoinCluster never gives a Record to a merged cluster.
C37_StatusStep ==
  /\ Len(clusters') >= Len(clusters)
  /\ \A c \in DOMAIN clusters :
       <<clusters[c].status, clusters'[c].status>> \in
         {<<"growing", "growing">>, <<"growing", "mature">>, <<"mature", "mature">>,
          <<"mature", "merged">>, <<"merged", "merged">>}
  /\ \A i \in DOMAIN memories', c \in DOMAIN clusters :
       (/\ memories'[i].cluster_id = c
        /\ i \in DOMAIN memories => memories[i].cluster_id # c) =>
         clusters[c].status # "merged"

C37_StatusMonotone == [][C37_StatusStep]_vars

\* cluster 1, growing at the start, is merged, and a save whose vector is that of
\* its centroid has just created a Record that joined no cluster
C37_Witness ==
  /\ clusters[1].status = "merged"
  /\ lastOp.op = "created"
  /\ lastOp.cluster = 0
  /\ lastOp.id \in DOMAIN memories_vec
  /\ memories_vec[lastOp.id] = SeedVec
  /\ memories[lastOp.id].domain = clusters[1].domain

\* C38: at most one aggregate Record is ever created per cluster, also when two
\* merge_cluster calls for the same mature cluster overlap: a call inserts its
\* aggregate only if no call has inserted one for that cluster before, that is, the
\* cluster is not merged yet and no other call holds an aggregate for it.
C38_InsertStep ==
  \A s \in Slots :
    (/\ calls[s].pc = "merge_llm"
     /\ calls'[s] # calls[s]
     /\ nextId' = nextId + 1) =>
      /\ clusters[calls[s].clusterId].status # "merged"
      /\ \A r \in Slots \ {s} :
           ~(calls[r].pc = "merge_embed" /\ calls[r].clusterId = calls[s].clusterId)

C38_OneAggregatePerCluster == [][C38_InsertStep]_vars

\* C39: auto_cluster is idempotent on a fixed store: with at most 100 eligible
\* Records, a second auto_cluster call with the same options made immediately
\* after the first creates no cluster and changes no Record, whatever order of
\* descending confidence its SELECT returns.
C39_AutoClusterStep ==
  \A m \in MinConfidences, d \in {"", "backend"} :
    AutoCluster(m, d) =>
      LET again == unclusteredIds(memories', m, d)
      IN Cardinality(again) <= AUTO_CLUSTER_LIMIT =>
           \A order \in confidenceOrders(again, memories') :
             LET out == autoClustered(order, memories', clusters', memories_vec')
             IN out.clusters = clusters' /\ out.memories = memories'

C39_AutoClusterIdempotent == [][C39_AutoClusterStep]_vars

\* autoCluster has run after a save and has left two eligible Records of one
\* domain, both with a vector, unclustered next to a cluster it created: the
\* second call has rows to compare
C39_Witness ==
  /\ lastOp = NoOp
  /\ nextId = Len(ClusterRows) + 2
  /\ Len(clusters) >= 2
  /\ \E i, j \in DOMAIN memories \cap DOMAIN memories_vec :
       /\ i # j
       /\ memories[i].cluster_id = 0 /\ memories[j].cluster_id = 0
       /\ memories[i].domain = memories[j].domain
       /\ memories[i].confidence >= 50 /\ memories[j].confidence >= 50

\* C40: when the detached analyzer of the PreCompact hook and the transcript
\* analysis of the SessionEnd hook run concurrently for the same session, no
\* transcript message is analysed twice, the stored lastLine never decreases, and
\* the state file of the session does not remain after SessionEnd has finished.
C40_NoMessageTwice ==
  \A i \in DOMAIN calls[SessionFiles].sent : calls[SessionFiles].sent[i] <= 1

C40_LastLineStep ==
  (calls[SessionFiles].exists /\ calls'[SessionFiles].exists) =>
    calls'[SessionFiles].lastLine >= calls[SessionFiles].lastLine

C40_NoStateFileLeft ==
  (/\ calls[SessionHook].pc = "exited"
   /\ calls[SessionHook].events # <<>>
   /\ Head(calls[SessionHook].events) = "analyze"
   /\ calls[Background].pc = "idle") => ~calls[SessionFiles].exists

C40_ConcurrentAnalyzers ==
  /\ []C40_NoMessageTwice
  /\ [][C40_LastLineStep]_vars
  /\ []C40_NoStateFileLeft

\* C6: when a Save has just created Record A and the same text is saved again to
\* the same (type, domain), the second Save returns {updated, id = A, similarity
\* >= 0.95}, inserts nothing, and A.access_count grows by exactly one.
C6_SecondSaveUpdates ==
  [][\A A \in DOMAIN memories :
       (/\ lastOp.op = "created" /\ lastOp.id = A
        /\ newestOfBucket(A)
        /\ startsSave(memories[A].content, memories[A].type, memories[A].domain))
       => (/\ lastOp'.op = "updated" /\ lastOp'.id = A
           /\ lastOp'.similarity.n * 100 >= 95 * lastOp'.similarity.d
           /\ DOMAIN memories' = DOMAIN memories
           /\ nextId' = nextId
           /\ \A s \in Slots : calls'[s] = calls[s]
           /\ memories'[A].access_count = memories[A].access_count + 1)]_vars

C6_Witness ==
  /\ lastOp.op = "updated" /\ lastOp.in_a_row
  /\ lastOp.id \in DOMAIN memories
  /\ memories[lastOp.id].access_count = 1
  /\ Cardinality(DOMAIN memories) = 1

\* C7: no Record was inserted by Save while one of the 10 most recent Records of
\* its (type, domain) bucket had word-level Jaccard similarity >= 0.95 to it.
C7_NoDuplicateInserted ==
  \A id \in DOMAIN memories :
    memories[id].source # "cluster-merge" => ~memories[id].dup_at_insert

\* C8: validate(id, is_valid) sets confidence to clamp(confidence + 0.1, 0.3, 0.9)
\* when is_valid and clamp(confidence - 0.05, 0.3, 0.9) otherwise and adds exactly 1
\* to evidence_count; evidence_count never decreases under any operation; from
\* 0.60, two invalid validations give 0.50 and three valid ones then give 0.80.
C8_ValidateStep ==
  \A id \in DOMAIN memories :
    (lastOp'.op = "validate" /\ lastOp'.id = id)
    => /\ id \in DOMAIN memories'
       /\ memories'[id].evidence_count = memories[id].evidence_count + 1
       /\ LET x == memories[id].confidence + (IF lastOp'.valid THEN 10 ELSE -5)
          IN memories'[id].confidence = (IF x < 30 THEN 30 ELSE IF x > 90 THEN 90 ELSE x)

C8_EvidenceMonotone ==
  \A id \in DOMAIN memories \cap DOMAIN memories' :
    memories'[id].evidence_count >= memories[id].evidence_count

C8_Scenario ==
  LET a == validatedConfidence(validatedConfidence(60, FALSE), FALSE)
      b == validatedConfidence(validatedConfidence(validatedConfidence(a, TRUE), TRUE), TRUE)
  IN a = 50 /\ b = 80

C8_Validate == [][C8_ValidateStep /\ C8_EvidenceMonotone /\ C8_Scenario]_vars

\* validate(true) then validate(false) on a Record saved at 0.50: +0.05, evidence 2
C8_Witness ==
  /\ lastOp.op = "validate" /\ ~lastOp.valid
  /\ lastOp.id \in DOMAIN memories
  /\ memories[lastOp.id].evidence_count = 2
  /\ memories[lastOp.id].source = "mcp-tool"
  /\ memories[lastOp.id].confidence = 55

=============================================================================
